---------------------------- MODULE Spec2Model ----------------------------
(***************************************************************************)
(* Study Analytics (Obsidian plugin): the StudySession class, the timer of *)
(* StudyFlowView in interval (pomodoro) mode and the part of               *)
(* StudyAnalyticsPlugin that ends and saves sessions, all of src/main.ts.  *)
(*                                                                         *)
(* Times are milliseconds (Number(new Date()), Date.now()); timeLeft is    *)
(* seconds; durations returned by getDuration() are minutes.               *)
(***************************************************************************)
EXTENDS Integers, Sequences, FiniteSets

\* ------------------------------------------------------------------ bounds

\* Clock steps taken in one behaviour of the session specifications.
MaxAdvances == 3
\* Sessions constructed in one behaviour.
MaxSessions == 3
\* Records handed to the store (end() calls) in one behaviour.
MaxRecords == 3
\* updateWordCount calls in one behaviour.
MaxUpdates == 5
\* Clock steps taken in one behaviour of the timer specification.
MaxTimerAdvances == 4
\* Handlers suspended at an await at one time.
MaxPending == 2
\* Clock steps taken in one behaviour of the three-mode specification.
MaxModeAdvances == 2
\* Sessions constructed before the last click of such a behaviour.
MaxModeSessions == 3
\* Records handed to the store before the last click of such a behaviour.
MaxModeRecords == 2
\* Clicks (buttons, commands, the midnight reset) in such a behaviour.
MaxClicks == 3
\* Clock steps of the goal-reset specification
MaxResetAdvances == 3
\* Days that pass in the goals-display specification
MaxDays == 6
\* Clock steps of the input specification
MaxInputAdvances == 1
\* Clock steps of the catch-up specification
MaxCatchUpAdvances == 3
\* Clock steps of the file-tracking specification
MaxFileAdvances == 2
\* File events delivered in one behaviour of that specification
MaxEvents == 2

\* --------------------------------------------------------------- constants

\* null (endTime, breakStartTime, interval, an absent Map entry); every
\* timestamp and count of the model is >= 0.
NULL == -1
\* plugin.currentSession === null
NullSession == [none |-> TRUE]
\* settings.recurringSessionGoals[category] === undefined
NoGoal == [absent |-> TRUE]
\* No goal has been reset yet; the goals display has not been built yet.
NoReset == [daily |-> NULL, weekly |-> NULL]
NoRows == <<>>
\* Nothing has been submitted yet.
NoSubmit == [none |-> TRUE]

MsPerMinute == 60000
MsPerSecond == 1000
MsPerHour == 60 * MsPerMinute
MsPerDay == 24 * MsPerHour
BreakCategory == "~Break~"
Categories == {"Study", "Work"}
Paths == {"a.md", "b.md"}
\* What the user types into a text input: nothing, blanks, a word with or
\* without blanks around it (a text is the sequence of its characters).
Blank == " "
Texts == {<<>>, <<Blank>>, <<Blank, Blank>>, <<"x">>, <<Blank, "x">>,
          <<"x", Blank>>}
\* settings.focusPath: none, or one that only a.md starts with.
FocusPaths == {"", "a"}
\* The words and the links a file has when it is read after an event.
ReadWords == {100, 120}
ReadLinks == {0, 1}
\* The word counts a file observation reports.
WordCounts == {0, 100, 120, 140, 150}

\* Lengths of the clock steps of the session specifications: a third and a
\* half of a minute (rounding, with and without a tie) and whole minutes.
Deltas == {20000, 30000, 3 * MsPerMinute, 5 * MsPerMinute, 22 * MsPerMinute}

\* The clock step of the timer specification: half a work interval.
TimerStep == 30 * MsPerSecond

\* The clock step of the three-mode specification: a work interval, half
\* the goal.
ModeStep == MsPerMinute

\* The clock steps of the goal-reset specification: the host is a second
\* late, most of a minute passes, the host was suspended overnight.
ResetDeltas == {MsPerSecond, 58 * MsPerSecond, 8 * MsPerHour}

\* The clock steps of the catch-up specification: the callbacks run a
\* little under one and under two seconds apart.
CatchUpDeltas == {900, 1900}

\* How far the clock is set back when it is.
SkewBack == 5 * MsPerMinute

Max(a, b) == IF a >= b THEN a ELSE b

\* Math.round(num / den) for den > 0: the nearest integer, a tie rounded up
\* (towards +infinity), which is floor(x + 1/2).
MathRound(num, den) == (2 * num + den) \div (2 * den)

\* Math.ceil(num / den) for den > 0.
MathCeil(num, den) == -((-num) \div den)

\* --------------------------------------------------------- StudySession

\* new StudySession(category) at time t, with the id the caller drew.
NewSession(category, t, id) ==
    [ id                 |-> id,
      category           |-> category,
      startTime          |-> t,
      endTime            |-> NULL,
      pomodorosCompleted |-> 0,
      completed          |-> FALSE,
      breakStartTime     |-> NULL,
      totalBreakDuration |-> 0,
      isBreak            |-> (category = BreakCategory),
      wordCount          |-> 0,
      initialWordCounts  |-> [p \in Paths |-> NULL],
      distractions       |-> <<>>,
      reflections        |-> <<>>,
      modifiedFiles      |-> {},
      openedFiles        |-> {},
      createdFiles       |-> {},
      initialLinkCounts  |-> [p \in Paths |-> NULL],
      createdLinks       |-> {} ]

\* addDistraction(note) at time t
AddDistraction(s, note, t) ==
    [s EXCEPT !.distractions = Append(@, [time |-> t, note |-> note])]

\* addReflection(text) at time t
AddReflection(s, text, t) ==
    [s EXCEPT !.reflections = Append(@, [time |-> t, text |-> text])]

SessBreakRestamps(s, t) == [s EXCEPT !.breakStartTime = t]

\* break(): opens a pause unless one is open.
SessBreak(s, t) ==
    IF s.breakStartTime = NULL THEN [s EXCEPT !.breakStartTime = t] ELSE s

\* resume(): closes the open pause, adding its length to the total.
SessResume(s, t) ==
    IF s.breakStartTime # NULL
    THEN [s EXCEPT !.totalBreakDuration = @ + (t - s.breakStartTime),
                   !.breakStartTime = NULL]
    ELSE s

\* updateWordCount(filePath, currentWordCount)
UpdateWordCountRebase(s, p, n) ==
    IF s.initialWordCounts[p] = NULL
    THEN [s EXCEPT !.initialWordCounts[p] = n]
    ELSE [s EXCEPT !.wordCount = @ + (n - s.initialWordCounts[p]),
                   !.initialWordCounts[p] = n]
UpdateWordCount(s, p, n) ==
    IF s.initialWordCounts[p] = NULL
    THEN [s EXCEPT !.initialWordCounts[p] = n]
    ELSE LET initialCount == s.initialWordCounts[p]
         IN  IF n > initialCount
             THEN [s EXCEPT !.wordCount = @ + (n - initialCount),
                            !.initialWordCounts[p] = n]
             ELSE s

\* updateLinkCount(filePath, currentLinkCount)
UpdateLinkCount(s, p, n) ==
    IF s.initialLinkCounts[p] = NULL
    THEN [s EXCEPT !.initialLinkCounts[p] = n]
    ELSE LET initialCount == s.initialLinkCounts[p]
         IN  IF n > initialCount
             THEN [s EXCEPT !.createdLinks =
                                @ \cup {<<p, initialCount + i>> :
                                          i \in 1..(n - initialCount)},
                            !.initialLinkCounts[p] = n]
             ELSE s

\* getDuration() called at time t (new Date()): minutes.
GetDurationNoOpenPause(s, t) ==
    LET end == IF s.endTime # NULL THEN s.endTime ELSE t
    IN  Max(0, MathRound(end - s.startTime, MsPerMinute)
               - MathRound(s.totalBreakDuration, MsPerMinute))
GetDuration(s, t) ==
    LET end == IF s.endTime # NULL THEN s.endTime ELSE t
        d0  == MathRound(end - s.startTime, MsPerMinute)
        d1  == IF s.breakStartTime # NULL
               THEN d0 - MathRound(t - s.breakStartTime, MsPerMinute)
               ELSE d0
        d2  == d1 - MathRound(s.totalBreakDuration, MsPerMinute)
    IN  Max(0, d2)

\* end() at time t: the session afterwards (endTime overwritten) ...
SessEnd(s, t) == [s EXCEPT !.endTime = t]

\* ... and the SessionData it returns (the fields the model follows).
EndRecord(s, t) ==
    LET e == SessEnd(s, t)
    IN  [ id            |-> e.id,
          category      |-> e.category,
          startTime     |-> e.startTime,
          duration      |-> GetDuration(e, t),
          pomodoros     |-> e.pomodorosCompleted,
          completed     |-> e.completed,
          isBreak       |-> e.isBreak,
          breakDuration |-> MathRound(e.totalBreakDuration, MsPerMinute),
          wordCount     |-> e.wordCount ]

\* ------------------------------------------------------------------ state

VARIABLES
    now,             \* the wall clock: new Date(), Date.now()
    currentSession,  \* plugin.currentSession
    nextId,          \* the id the next StudySession draws (crypto.randomUUID)
    sessions,        \* plugin.sessionsData.sessions
    pending,         \* async handlers suspended at an await of a save
    timeLeft,        \* view.timeLeft (seconds)
    isRunning,       \* view.isRunning
    isBreak,         \* view.isBreak
    pomodoroCount,   \* view.pomodoroCount
    interval,        \* view.interval: TRUE while it holds the handle of a
                     \* scheduled tick
    orphans,         \* scheduled ticks whose handle view.interval has lost
    endTime,         \* view.endTime
    lastUpdate,      \* view.lastUpdate
    categorySelect,  \* view.categorySelect.value
    settings,        \* plugin.settings
    isStopwatch,         \* view.isStopwatch
    isRecurringSession,  \* view.isRecurringSession
    stopwatchElapsed,    \* view.stopwatchElapsed (ms)
    stopwatchStartTime,  \* view.stopwatchStartTime
    goalTimeRemaining,   \* view.goalTimeRemaining (seconds)
    goals,           \* plugin.settings.recurringSessionGoals
    notices,         \* history: 'Goal for <category> reached!' notices shown
    accrued,         \* history: session id -> times its duration was added
                     \*          to a goal's timeSpent
    ranFor,          \* history: ms the stopwatch has been running since it
                     \*          was last reset
    clicks,          \* history: clicks taken (three-mode specification)
    checkDue,        \* when the host is due to run the midnight check next
    lastReset,       \* history: period -> the day its goals were last reset
    goalRows,        \* what updateDailyTime() shows for each goal
    distractionInput,  \* view.distractionInput.value
    notesArea,       \* view.notesArea.value: the blocks appended to it
    lastSubmit,      \* history: the last text submitted, and to what
    reads,           \* vault.read() promises of the 'modify' handler not
                     \* yet settled: the paths read
    events,          \* history: file events delivered
    advances,        \* history: clock steps taken
    skewed,          \* history: the clock has been set back
    pausedAt,        \* history: when the last pause of the session was opened
    durAtPause,      \* history: getDuration() just before that pause
    returned,        \* history: the SessionData the last end() returned
    lastObserved,    \* history: the last count observed for each path
    positiveDeltas,  \* history: sum of the positive deltas between
                     \*          consecutive observations of each path
    updates          \* history: updateWordCount calls made

sessionVars == <<currentSession, nextId, sessions>>
timerVars == <<pending, timeLeft, isRunning, isBreak, pomodoroCount, interval,
               endTime, lastUpdate, categorySelect, settings, clicks>>
modeVars == <<isStopwatch, isRecurringSession, stopwatchElapsed,
              stopwatchStartTime, goalTimeRemaining, goals, notices, accrued,
              lastReset, distractionInput, notesArea, lastSubmit, reads,
              events, orphans>>
clockVars == <<now, advances, skewed>>
calendarVars == <<checkDue, goalRows>>
pauseHist == <<pausedAt, durAtPause, returned>>
wordHist == <<lastObserved, positiveDeltas, updates>>
vars == <<now, currentSession, nextId, sessions, pending, timeLeft, isRunning,
          isBreak, pomodoroCount, interval, endTime, lastUpdate, categorySelect,
          settings, advances, skewed, pausedAt, durAtPause, returned,
          lastObserved, positiveDeltas, updates, isStopwatch,
          isRecurringSession, stopwatchElapsed, stopwatchStartTime,
          goalTimeRemaining, goals, notices, accrued, ranFor, clicks,
          checkDue, lastReset, goalRows, distractionInput, notesArea,
          lastSubmit, reads, events, orphans>>

\* plugin.settings: DEFAULT_SETTINGS with the two auto-start switches as
\* given and the durations (minutes) of a small configuration.
Settings(autoStartBreaks, autoStartPomodoros) ==
    [ pomodoroTime       |-> 1,
      shortBreakTime     |-> 1,
      longBreakTime      |-> 2,
      longBreakInterval  |-> 2,
      categories         |-> <<"Study", "Work", BreakCategory>>,
      autoStartBreaks    |-> autoStartBreaks,
      autoStartPomodoros |-> autoStartPomodoros,
      resetTimerOnNewSession  |-> FALSE,
      enableRecurringSessions |-> FALSE,
      focusPath               |-> "",
      enableWeeklySummary     |-> TRUE,
      autoWeeklySummary       |-> FALSE,
      weeklySummaryDay        |-> 0,
      prorateWeeklyGoals      |-> FALSE ]

\* The plugin and the view as constructed, no session yet.
InitCommon ==
    /\ now = 0
    /\ currentSession = NullSession
    /\ nextId = 1
    /\ sessions = <<>>
    /\ pending = <<>>
    /\ isRunning = FALSE
    /\ isBreak = FALSE
    /\ pomodoroCount = 0
    /\ interval = FALSE
    /\ endTime = NULL
    /\ lastUpdate = NULL
    /\ categorySelect = "Study"
    /\ advances = 0
    /\ skewed = FALSE
    /\ pausedAt = NULL
    /\ durAtPause = NULL
    /\ returned = NullSession
    /\ lastObserved = [p \in Paths |-> NULL]
    /\ positiveDeltas = 0
    /\ updates = 0
    /\ isStopwatch = FALSE
    /\ isRecurringSession = FALSE
    /\ stopwatchElapsed = 0
    /\ stopwatchStartTime = NULL
    /\ goalTimeRemaining = 0
    /\ notices = [c \in Categories |-> 0]
    /\ accrued = <<>>
    /\ ranFor = 0
    /\ clicks = 0
    /\ checkDue = NULL
    /\ lastReset = NoReset
    /\ goalRows = NoRows
    /\ distractionInput = <<>>
    /\ notesArea = <<>>
    /\ lastSubmit = NoSubmit
    /\ reads = <<>>
    /\ events = 0
    /\ orphans = 0

\* ------------------------------------------------------------------ clock

\* Time passes.
AdvanceClock(d) ==
    /\ now' = now + d
    /\ advances' = advances + 1
    /\ ranFor' = IF isRunning /\ isStopwatch THEN ranFor + d ELSE ranFor
    /\ UNCHANGED <<skewed, sessionVars, timerVars, modeVars, pauseHist,
                   wordHist, calendarVars>>

\* The system clock is set back (once in a behaviour).
ClockSkew(d) ==
    /\ ~skewed
    /\ now - d >= 0
    /\ now' = now - d
    /\ skewed' = TRUE
    /\ UNCHANGED <<advances, sessionVars, timerVars, modeVars, ranFor,
                   pauseHist, wordHist, calendarVars>>

\* --------------------------------------- the methods of one StudySession

\* plugin.startNewSession(category)
StartNewSession(c) ==
    /\ nextId <= MaxSessions
    /\ currentSession' = NewSession(c, now, nextId)
    /\ nextId' = nextId + 1
    /\ pausedAt' = NULL
    /\ durAtPause' = NULL
    /\ returned' = NullSession
    /\ lastObserved' = [p \in Paths |-> NULL]
    /\ positiveDeltas' = 0
    /\ UNCHANGED <<sessions, updates, clockVars, timerVars, modeVars, ranFor,
                   calendarVars>>

\* currentSession.break()
CallBreak ==
    /\ currentSession # NullSession
    /\ currentSession' = SessBreak(currentSession, now)
    /\ IF currentSession.breakStartTime = NULL
       THEN /\ pausedAt' = now
            /\ durAtPause' = GetDuration(currentSession, now)
       ELSE UNCHANGED <<pausedAt, durAtPause>>
    /\ UNCHANGED returned
    /\ UNCHANGED <<nextId, sessions, clockVars, timerVars, modeVars, ranFor,
                   wordHist, calendarVars>>

\* currentSession.resume()
CallResume ==
    /\ currentSession # NullSession
    /\ currentSession' = SessResume(currentSession, now)
    /\ UNCHANGED <<nextId, sessions, clockVars, timerVars, modeVars, ranFor,
                   pauseHist, wordHist, calendarVars>>

\* currentSession.end()
CallEnd ==
    /\ currentSession # NullSession
    /\ currentSession' = SessEnd(currentSession, now)
    /\ returned' = EndRecord(currentSession, now)
    /\ UNCHANGED <<nextId, sessions, clockVars, timerVars, modeVars, ranFor,
                   pausedAt, durAtPause, wordHist, calendarVars>>

\* currentSession.updateWordCount(p, n)
CallUpdateWordCount(p, n) ==
    /\ currentSession # NullSession
    /\ updates < MaxUpdates
    /\ currentSession' = UpdateWordCount(currentSession, p, n)
    /\ lastObserved' = [lastObserved EXCEPT ![p] = n]
    /\ positiveDeltas' = IF lastObserved[p] # NULL /\ n > lastObserved[p]
                         THEN positiveDeltas + (n - lastObserved[p])
                         ELSE positiveDeltas
    /\ updates' = updates + 1
    /\ UNCHANGED <<nextId, sessions, clockVars, timerVars, modeVars, ranFor,
                   pauseHist, calendarVars>>

\* ------------------------------------------- the session specifications

InitSession ==
    /\ InitCommon
    /\ goals = [c \in Categories |-> NoGoal]
    /\ settings = Settings(TRUE, FALSE)
    /\ timeLeft = settings.pomodoroTime * 60

\* One session's clock arithmetic: construction, pause, resume, end.
NextDuration ==
    \/ advances < MaxAdvances /\ \E d \in Deltas : AdvanceClock(d)
    \/ ClockSkew(SkewBack)
    \/ currentSession = NullSession /\ StartNewSession("Study")
    \/ CallBreak
    \/ CallResume
    \/ CallEnd

SpecDuration == InitSession /\ [][NextDuration]_vars

\* One session's word counting.
NextWords ==
    \/ \E c \in Categories : StartNewSession(c)
    \/ \E p \in Paths : \E n \in WordCounts : CallUpdateWordCount(p, n)

SpecWords == InitSession /\ [][NextWords]_vars

\* ------------------------------------------- the timer, interval mode
\* The handlers of StudyFlowView and StudyAnalyticsPlugin run one at a time
\* on the event loop.  A handler that awaits plugin.saveSessionToFile() is
\* suspended there and other handlers (clicks, ticks) run before it goes
\* on: `pending' holds the suspended handlers, each with the SessionData it
\* is saving.  The procedures below take and return the fields they act on
\* as one record.

Cur ==
    [ currentSession |-> currentSession,
      nextId         |-> nextId,
      pending        |-> pending,
      timeLeft       |-> timeLeft,
      isRunning      |-> isRunning,
      isBreak        |-> isBreak,
      pomodoroCount  |-> pomodoroCount,
      interval       |-> interval,
      endTime        |-> endTime,
      lastUpdate     |-> lastUpdate,
      categorySelect |-> categorySelect,
      isStopwatch        |-> isStopwatch,
      isRecurringSession |-> isRecurringSession,
      stopwatchElapsed   |-> stopwatchElapsed,
      stopwatchStartTime |-> stopwatchStartTime,
      goalTimeRemaining  |-> goalTimeRemaining,
      goals          |-> goals,
      notices        |-> notices,
      accrued        |-> accrued,
      ranFor         |-> ranFor,
      lastReset      |-> lastReset,
      distractionInput |-> distractionInput,
      notesArea      |-> notesArea,
      lastSubmit     |-> lastSubmit,
      reads          |-> reads,
      events         |-> events,
      orphans        |-> orphans ]

Commit(r) ==
    /\ currentSession' = r.currentSession
    /\ nextId' = r.nextId
    /\ pending' = r.pending
    /\ timeLeft' = r.timeLeft
    /\ isRunning' = r.isRunning
    /\ isBreak' = r.isBreak
    /\ pomodoroCount' = r.pomodoroCount
    /\ interval' = r.interval
    /\ endTime' = r.endTime
    /\ lastUpdate' = r.lastUpdate
    /\ categorySelect' = r.categorySelect
    /\ isStopwatch' = r.isStopwatch
    /\ isRecurringSession' = r.isRecurringSession
    /\ stopwatchElapsed' = r.stopwatchElapsed
    /\ stopwatchStartTime' = r.stopwatchStartTime
    /\ goalTimeRemaining' = r.goalTimeRemaining
    /\ goals' = r.goals
    /\ notices' = r.notices
    /\ accrued' = r.accrued
    /\ ranFor' = r.ranFor
    /\ lastReset' = r.lastReset
    /\ distractionInput' = r.distractionInput
    /\ notesArea' = r.notesArea
    /\ lastSubmit' = r.lastSubmit
    /\ reads' = r.reads
    /\ events' = r.events
    /\ orphans' = r.orphans

\* What the timer handlers leave alone.
timerFrame == <<sessions, settings, clockVars, pauseHist, wordHist,
                calendarVars>>

\* plugin.startNewSession(category), inside a handler
StartNewSessionIn(r, category) ==
    [r EXCEPT !.currentSession = NewSession(category, now, r.nextId),
              !.nextId = @ + 1]

\* Math.max(0, Math.ceil((this.endTime - now) / 1000))
Remaining(r) == Max(0, MathCeil(r.endTime - now, MsPerSecond))

\* Math.max(0, Math.floor((this.endTime - now) / 1000))
GoalRemaining(r) == Max(0, (r.endTime - now) \div MsPerSecond)

\* settings.recurringSessionGoals[category], NoGoal when undefined.  The
\* model keeps timeGoal and timeSpent in minutes: the code keeps hours,
\* adds getDuration() / 60 and compares the two.
GoalOf(r, category) ==
    IF category \in DOMAIN r.goals THEN r.goals[category] ELSE NoGoal

\* Math.floor(goal.timeGoal * 3600): the goal in seconds
GoalSeconds(goal) == goal.timeGoal * 60

\* this.timerStartTime: set to null by the constructor and by
\* resetSession(), assigned nowhere else.
timerStartTime == NULL

\* view.startTimer().  `!this.stopwatchStartTime' is `stopwatchStartTime is
\* null': Date.now() is never 0.  The stopwatch assigns this.interval
\* without looking at it: an interval scheduled before goes on, its handle
\* lost.
StartTimer(r) ==
    LET r1 == IF r.currentSession = NullSession
              THEN StartNewSessionIn(r, r.categorySelect)
              ELSE r
        r2 == [r1 EXCEPT !.currentSession = SessResume(@, now),
                         !.isRunning = TRUE]
    IN  IF r2.isStopwatch
        THEN [r2 EXCEPT !.stopwatchStartTime =
                            IF @ = NULL
                            THEN now - r2.stopwatchElapsed ELSE @,
                        !.orphans = IF r2.interval THEN @ + 1 ELSE @,
                        !.interval = TRUE]
        ELSE IF r2.isRecurringSession
        THEN IF ~r2.interval
             THEN LET goal == GoalOf(r2, r2.categorySelect)
                      r3 == IF goal # NoGoal /\ timerStartTime = NULL
                            THEN [r2 EXCEPT !.goalTimeRemaining =
                                                GoalSeconds(goal)]
                            ELSE r2
                  IN  [r3 EXCEPT !.endTime = now + r3.goalTimeRemaining
                                                   * MsPerSecond,
                                 !.lastUpdate = now,
                                 !.interval = TRUE]
             ELSE r2
        ELSE IF ~r2.interval
             THEN [r2 EXCEPT !.endTime = now + r2.timeLeft * MsPerSecond,
                             !.lastUpdate = now,
                             !.interval = TRUE]
             ELSE r2

BreakTimerKeepsInterval(r) ==
    LET r1 == [r EXCEPT !.isRunning = FALSE,
                        !.currentSession =
                            IF @ # NullSession THEN SessBreak(@, now) ELSE @]
    IN  IF ~r1.isStopwatch
        THEN [r1 EXCEPT !.timeLeft = Remaining(r1)]
        ELSE r1

\* view.breakTimer()
BreakTimer(r) ==
    LET r1 == [r EXCEPT !.isRunning = FALSE,
                        !.currentSession =
                            IF @ # NullSession THEN SessBreak(@, now) ELSE @,
                        !.interval = FALSE]
    IN  IF ~r1.isStopwatch
        THEN [r1 EXCEPT !.timeLeft = Remaining(r1)]
        ELSE r1

\* A handler suspended in `await this.plugin.saveSessionToFile(sessionData)':
\* which handler, the SessionData, whether the save has pushed it onto
\* sessionsData.sessions yet.  count is history: pomodoroCount when a work
\* interval completed.
Suspended(kind, sessionData, count) ==
    [ kind |-> kind, sessionData |-> sessionData, pushed |-> FALSE,
      count |-> count ]

\* A handler suspended in `await this.saveSettings()': nothing to push.
SuspendedOnSettings(kind) ==
    [ kind |-> kind, sessionData |-> NullSession, pushed |-> TRUE,
      count |-> 0 ]

\* view.completeTimer() up to its await
CompleteTimerBegin(r) ==
    LET r1 == BreakTimer(r)
    IN  IF ~r1.isBreak
        THEN LET r2 == [r1 EXCEPT !.pomodoroCount = @ + 1]
             IN  IF r2.currentSession # NullSession
                 THEN LET s == [r2.currentSession EXCEPT
                                    !.pomodorosCompleted = @ + 1]
                      IN  [r2 EXCEPT
                             !.currentSession = SessEnd(s, now),
                             !.pending = Append(@,
                                 Suspended("completeWork", EndRecord(s, now),
                                           r2.pomodoroCount))]
                 ELSE r2
        ELSE LET r2 == [r1 EXCEPT !.timeLeft = settings.pomodoroTime * 60,
                                  !.isBreak = FALSE]
             IN  IF r2.currentSession # NullSession
                 THEN [r2 EXCEPT
                         !.currentSession = SessEnd(@, now),
                         !.pending = Append(@,
                             Suspended("completeBreak",
                                       EndRecord(r2.currentSession, now),
                                       r2.pomodoroCount))]
                 ELSE IF settings.autoStartPomodoros
                      THEN StartTimer([StartNewSessionIn(r2, "Study")
                                          EXCEPT !.categorySelect = "Study"])
                      ELSE r2

\* the short or the long break: minutes
BreakTime(count) ==
    IF count % settings.longBreakInterval = 0
    THEN settings.longBreakTime
    ELSE settings.shortBreakTime

\* view.completeTimer() after its await, a work interval
CompleteWorkResume(r) ==
    LET r1 == [r EXCEPT !.timeLeft = BreakTime(r.pomodoroCount) * 60,
                        !.isBreak = TRUE,
                        !.notesArea = <<>>,
                        !.distractionInput = <<>>]
        r2 == [StartNewSessionIn(r1, BreakCategory)
                  EXCEPT !.categorySelect = BreakCategory]
    IN  IF settings.autoStartBreaks THEN StartTimer(r2) ELSE r2

\* view.completeTimer() after its await, a break
CompleteBreakResume(r) ==
    LET r1 == [r EXCEPT !.notesArea = <<>>, !.distractionInput = <<>>]
    IN  IF settings.autoStartPomodoros
        THEN StartTimer([StartNewSessionIn(r1, "Study")
                            EXCEPT !.categorySelect = "Study"])
        ELSE r1

\* view.resetSession()
ResetSessionClearsProgress(r) ==
    LET r1 == IF r.isStopwatch
              THEN [r EXCEPT !.stopwatchElapsed = 0, !.ranFor = 0]
              ELSE IF r.isRecurringSession
              THEN LET goal == GoalOf(r, r.categorySelect)
                   IN  IF goal # NoGoal
                       THEN [r EXCEPT
                               !.goalTimeRemaining = GoalSeconds(goal),
                               !.goals[r.categorySelect].timeSpent = 0]
                       ELSE [r EXCEPT !.goalTimeRemaining = 0]
              ELSE [r EXCEPT !.timeLeft = settings.pomodoroTime * 60,
                             !.isBreak = FALSE,
                             !.pomodoroCount = 0]
    IN  [r1 EXCEPT !.isRunning = FALSE,
                   !.lastUpdate = NULL,
                   !.interval = FALSE,
                   !.notesArea = <<>>,
                   !.distractionInput = <<>>,
                   !.categorySelect = "Study"]

\* view.resetSession(): it leaves the goals alone.
ResetSession(r) ==
    LET r1 == IF r.isStopwatch
              THEN [r EXCEPT !.stopwatchElapsed = 0, !.ranFor = 0]
              ELSE IF r.isRecurringSession
              THEN LET goal == GoalOf(r, r.categorySelect)
                   IN  [r EXCEPT !.goalTimeRemaining =
                                     IF goal # NoGoal THEN GoalSeconds(goal)
                                     ELSE 0]
              ELSE [r EXCEPT !.timeLeft = settings.pomodoroTime * 60,
                             !.isBreak = FALSE,
                             !.pomodoroCount = 0]
    IN  [r1 EXCEPT !.isRunning = FALSE,
                   !.lastUpdate = NULL,
                   !.interval = FALSE,
                   !.notesArea = <<>>,
                   !.distractionInput = <<>>,
                   !.categorySelect = "Study"]

\* The accrual of endCurrentSession() and of changeCategory(): the duration
\* of session s goes to the goal of its category.
AccrueAlwaysNotifies(r, s) ==
    LET goal == GoalOf(r, s.category)
        spent == goal.timeSpent + GetDuration(s, now)
        reached == spent >= goal.timeGoal
    IN  IF goal = NoGoal THEN r
        ELSE [r EXCEPT
                !.goals[s.category].timeSpent = spent,
                !.goals[s.category].achieved = (@ \/ reached),
                !.notices[s.category] = IF reached THEN @ + 1 ELSE @,
                !.accrued = [i \in DOMAIN r.accrued \cup {s.id} |->
                               IF i = s.id
                               THEN (IF i \in DOMAIN r.accrued
                                     THEN r.accrued[i] ELSE 0) + 1
                               ELSE r.accrued[i]]]

\* The accrual: timeSpent grows by the duration, achieved and the
\* notification follow only while the goal is not yet achieved.
Accrue(r, s) ==
    LET goal == GoalOf(r, s.category)
        spent == goal.timeSpent + GetDuration(s, now)
        reached == ~goal.achieved /\ spent >= goal.timeGoal
    IN  IF goal = NoGoal THEN r
        ELSE [r EXCEPT
                !.goals[s.category].timeSpent = spent,
                !.goals[s.category].achieved = (@ \/ reached),
                !.notices[s.category] = IF reached THEN @ + 1 ELSE @,
                !.accrued = [i \in DOMAIN r.accrued \cup {s.id} |->
                               IF i = s.id
                               THEN (IF i \in DOMAIN r.accrued
                                     THEN r.accrued[i] ELSE 0) + 1
                               ELSE r.accrued[i]]]

\* plugin.endCurrentSession() from its end() call to the await of the save
EndFinalize(r) ==
    IF r.currentSession = NullSession
    THEN r   \* this.currentSession.end() throws: the handler is over
    ELSE [r EXCEPT
            !.currentSession = SessEnd(@, now),
            !.pending = Append(@,
                Suspended("end", EndRecord(r.currentSession, now),
                          r.pomodoroCount))]

\* plugin.endCurrentSession() up to its first await
EndBegin(r) ==
    IF /\ r.isRecurringSession
       /\ ~r.currentSession.isBreak
       /\ GoalOf(r, r.currentSession.category) # NoGoal
    THEN [Accrue(r, r.currentSession) EXCEPT
             !.pending = Append(@, SuspendedOnSettings("endSettings"))]
    ELSE EndFinalize(r)

\* plugin.endCurrentSession(): `if (this.currentSession) { ... }'
EndRequestResets(r) ==
    IF r.currentSession = NullSession THEN ResetSession(r) ELSE EndBegin(r)
EndRequest(r) ==
    IF r.currentSession = NullSession THEN r ELSE EndBegin(r)

\* plugin.endCurrentSession() after the await of the save
EndResume(r) == ResetSession([r EXCEPT !.currentSession = NullSession])

\* newSessionButton.onclick after its await (all of it when no session was
\* active)
NewSessionResume(r) ==
    LET r1 == [StartNewSessionIn(r, r.categorySelect)
                  EXCEPT !.notesArea = <<>>, !.distractionInput = <<>>]
    IN  IF settings.resetTimerOnNewSession
        THEN LET r2 == IF ~r1.isStopwatch
                       THEN [r1 EXCEPT !.timeLeft = settings.pomodoroTime * 60]
                       ELSE [r1 EXCEPT !.stopwatchElapsed = 0,
                                       !.stopwatchStartTime = NULL,
                                       !.ranFor = 0]
             IN  IF r2.isRunning THEN StartTimer(BreakTimer(r2)) ELSE r2
        ELSE r1

\* newSessionButton.onclick up to its await
NewSessionBegin(r) ==
    IF r.currentSession # NullSession
    THEN [r EXCEPT
            !.currentSession = SessEnd(@, now),
            !.pending = Append(@,
                Suspended("newSession", EndRecord(r.currentSession, now),
                          r.pomodoroCount))]
    ELSE NewSessionResume(r)

\* changeCategory(): `Restore timer state for continuity', from the
\* backups taken of `before'.
RestoreNothing(r, before, newCategory) == r
RestoreTimerState(r, before, newCategory) ==
    IF before.isStopwatch
    THEN [r EXCEPT !.isStopwatch = TRUE,
                   !.isRecurringSession = FALSE,
                   !.stopwatchElapsed = before.stopwatchElapsed]
    ELSE IF before.isRecurringSession
    THEN LET goal == GoalOf(r, newCategory)
         IN  [r EXCEPT !.isStopwatch = FALSE,
                       !.isRecurringSession = TRUE,
                       !.goalTimeRemaining =
                           IF goal # NoGoal THEN GoalSeconds(goal) ELSE 0]
    ELSE [r EXCEPT !.isStopwatch = FALSE,
                   !.isRecurringSession = FALSE,
                   !.timeLeft = before.timeLeft]

\* view.changeCategory(newCategory), called by categorySelect.onchange
ChangeCategoryBody(r, newCategory) ==
    IF r.currentSession # NullSession
       /\ r.currentSession.category # newCategory
    THEN LET wasRunning == r.isRunning
             r1 == IF r.isRecurringSession /\ ~r.currentSession.isBreak
                   THEN Accrue(r, r.currentSession)
                   ELSE r
             r2 == IF wasRunning THEN BreakTimer(r1) ELSE r1
             r3 == [r2 EXCEPT
                      !.currentSession = SessEnd(@, now),
                      !.pending = Append(@,
                          Suspended("changeCategory",
                                    EndRecord(r2.currentSession, now),
                                    r2.pomodoroCount))]
             r4 == [StartNewSessionIn(r3, newCategory)
                       EXCEPT !.categorySelect = newCategory]
             r5 == RestoreTimerState(r4, r, newCategory)
         IN  IF wasRunning THEN StartTimer(r5) ELSE r5
    ELSE r

\* The options updateCategorySelect() leaves in the select, and the one
\* selected afterwards.
CategoryOptions(r) ==
    IF r.isBreak THEN {BreakCategory} ELSE Categories \cup {BreakCategory}
FirstOption(r) == IF r.isBreak THEN BreakCategory ELSE "Study"

\* view.toggleTimerMode()
ToggleTimerModeBody(r) ==
    LET r1 == IF r.isRunning THEN BreakTimer(r) ELSE r
        currentCategory == r1.categorySelect
        r2 == IF ~r1.isStopwatch /\ ~r1.isRecurringSession
              THEN [r1 EXCEPT !.isStopwatch = TRUE,
                              !.isRecurringSession = FALSE]
              ELSE IF r1.isStopwatch /\ ~r1.isRecurringSession
              THEN IF settings.enableRecurringSessions
                   THEN LET goal == GoalOf(r1, currentCategory)
                        IN  [r1 EXCEPT !.isStopwatch = FALSE,
                                       !.isRecurringSession = TRUE,
                                       !.goalTimeRemaining =
                                           IF goal # NoGoal
                                           THEN GoalSeconds(goal) ELSE @]
                   ELSE [r1 EXCEPT !.isStopwatch = FALSE,
                                   !.isRecurringSession = FALSE]
              ELSE [r1 EXCEPT !.isStopwatch = FALSE,
                              !.isRecurringSession = FALSE]
        r3 == ResetSession(r2)
    IN  [r3 EXCEPT !.categorySelect =
                       IF currentCategory \in CategoryOptions(r3)
                       THEN currentCategory ELSE FirstOption(r3)]

\* plugin.resetRecurringGoals('daily') up to its await: every goal is daily
ResetGoalsBegin(r) ==
    [r EXCEPT
        !.goals = [c \in DOMAIN @ |->
                     IF @[c] = NoGoal THEN NoGoal
                     ELSE [@[c] EXCEPT !.timeSpent = 0, !.achieved = FALSE]],
        !.notices = [c \in DOMAIN @ |-> 0],
        !.pending = Append(@, SuspendedOnSettings("resetGoals"))]

\* plugin.resetRecurringGoals('daily') after its await
ResetGoalsResume(r) ==
    IF (\E c \in DOMAIN r.goals : r.goals[c] # NoGoal) /\ r.isRecurringSession
    THEN LET wasRunning == r.isRunning
             r1 == IF wasRunning THEN BreakTimer(r) ELSE r
             goal == GoalOf(r1, r1.categorySelect)
         IN  IF goal # NoGoal
             THEN LET r2 == [r1 EXCEPT !.goalTimeRemaining = GoalSeconds(goal)]
                  IN  IF wasRunning THEN StartTimer(r2) ELSE r2
             ELSE r1
    ELSE r

\* new Date(t) in local time; time 0 of the model is a Sunday, 00:00.
\* Day(t) numbers the days (history), GetDay(t) is getDay(): 0 = Sunday.
Day(t) == t \div MsPerDay
GetDay(t) == (t \div MsPerDay) % 7
GetHours(t) == (t % MsPerDay) \div MsPerHour
GetMinutes(t) == (t % MsPerHour) \div MsPerMinute

\* The period of the interval that runs the midnight check.
CheckPeriod == 60000

\* plugin.resetRecurringGoals(period) up to its await
ResetGoalsOf(r, period) ==
    IF ~settings.enableRecurringSessions THEN r
    ELSE [r EXCEPT
            !.goals = [c \in DOMAIN @ |->
                         IF @[c] # NoGoal /\ @[c].period = period
                         THEN [@[c] EXCEPT !.timeSpent = 0,
                                           !.achieved = FALSE]
                         ELSE @[c]],
            !.notices = [c \in DOMAIN @ |->
                           IF r.goals[c] # NoGoal
                              /\ r.goals[c].period = period
                           THEN 0 ELSE @[c]],
            !.lastReset[period] = Day(now)]

\* plugin.resetRecurringGoals(period) after its await
ResetGoalsResumeOf(r, period) ==
    IF /\ \E c \in DOMAIN r.goals :
             r.goals[c] # NoGoal /\ r.goals[c].period = period
       /\ r.isRecurringSession
    THEN LET wasRunning == r.isRunning
             r1 == IF wasRunning THEN BreakTimer(r) ELSE r
             goal == GoalOf(r1, r1.categorySelect)
         IN  IF goal # NoGoal /\ goal.period = period
             THEN LET r2 == [r1 EXCEPT !.goalTimeRemaining = GoalSeconds(goal)]
                  IN  IF wasRunning THEN StartTimer(r2) ELSE r2
             ELSE r1
    ELSE r

\* `now.getHours() === 0 && now.getMinutes() < 1'
InResetWindow(t) == GetHours(t) = 0 /\ GetMinutes(t) < 1

\* The condition of the weekly reset
WeeklyResetDue(t) ==
    /\ settings.enableWeeklySummary
    /\ settings.autoWeeklySummary
    /\ GetDay(t) = settings.weeklySummaryDay
    /\ InResetWindow(t)

\* The callback of the midnight interval up to its first await (`now' is
\* taken once, at the start of the callback).  With the recurring sessions
\* disabled resetRecurringGoals() returns at once.
MidnightCheckBegin(r) ==
    IF InResetWindow(now) /\ settings.enableRecurringSessions
    THEN [ResetGoalsOf(r, "daily") EXCEPT
             !.pending = Append(@, SuspendedOnSettings(
                             IF WeeklyResetDue(now)
                             THEN "midnightThenWeekly" ELSE "midnight"))]
    ELSE r

\* ... after the await of the daily reset ...
MidnightDailyResume(r, weekly) ==
    LET r1 == ResetGoalsResumeOf(r, "daily")
    IN  IF weekly
        THEN [ResetGoalsOf(r1, "weekly") EXCEPT
                 !.pending = Append(@, SuspendedOnSettings("midnightWeekly"))]
        ELSE r1

\* ... and after the await of the weekly reset.
MidnightWeeklyResume(r) == ResetGoalsResumeOf(r, "weekly")

\* String.prototype.trim(): the text without the white space at its
\* ends.
RECURSIVE TrimStart(_)
TrimStart(text) ==
    IF text # <<>> /\ Head(text) = Blank THEN TrimStart(Tail(text)) ELSE text
RECURSIVE TrimEnd(_)
TrimEnd(text) ==
    IF text # <<>> /\ text[Len(text)] = Blank
    THEN TrimEnd(SubSeq(text, 1, Len(text) - 1))
    ELSE text
Trim(text) == TrimEnd(TrimStart(text))

\* view.reportDistraction()
ReportDistractionUntrimmed(r) ==
    LET r1 == [r EXCEPT !.lastSubmit =
                   [ kind |-> "distraction", text |-> r.distractionInput,
                     session |-> r.currentSession ]]
    IN  IF r.distractionInput # <<>> /\ r.currentSession # NullSession
        THEN [r1 EXCEPT
                !.currentSession = AddDistraction(@, r.distractionInput, now),
                !.distractionInput = <<>>]
        ELSE r1
ReportDistractionBody(r) ==
    LET r1 == [r EXCEPT !.lastSubmit =
                   [ kind |-> "distraction", text |-> r.distractionInput,
                     session |-> r.currentSession ]]
    IN  IF Trim(r.distractionInput) # <<>> /\ r.currentSession # NullSession
        THEN [r1 EXCEPT
                !.currentSession = AddDistraction(@, r.distractionInput, now),
                !.distractionInput = <<>>]
        ELSE r1

\* submitButton.onclick of the reflection modal, reflectionInput.value
\* being text
SubmitReflectionBody(r, text) ==
    LET r1 == [r EXCEPT !.lastSubmit =
                   [ kind |-> "reflection", text |-> text,
                     session |-> r.currentSession ]]
    IN  IF Trim(text) # <<>> /\ r.currentSession # NullSession
        THEN [r1 EXCEPT
                !.currentSession = AddReflection(@, text, now),
                !.notesArea = Append(@, text)]
        ELSE r1

\* The user types into the distraction input.
TypeDistraction(text) ==
    /\ Commit([Cur EXCEPT !.distractionInput = text])
    /\ UNCHANGED timerFrame

\* The Report distraction button, Enter in the distraction input
ReportDistraction ==
    /\ Commit(ReportDistractionBody(Cur))
    /\ UNCHANGED timerFrame

\* The Add reflection button of the modal
SubmitReflection(text) ==
    /\ Commit(SubmitReflectionBody(Cur, text))
    /\ UNCHANGED timerFrame

\* The Start/Break button, the toggle-timer command: view.toggleTimer()
ToggleTimer ==
    /\ Commit(IF isRunning THEN BreakTimer(Cur) ELSE StartTimer(Cur))
    /\ UNCHANGED timerFrame

\* The callback of the interval startTimer() set, every 100 ms while
\* scheduled (later when the host was suspended).
IntervalTick ==
    /\ interval
    /\ IF isStopwatch
       THEN Commit([Cur EXCEPT !.stopwatchElapsed = now - stopwatchStartTime])
       ELSE IF isRecurringSession
       THEN LET r == [Cur EXCEPT !.goalTimeRemaining = GoalRemaining(Cur),
                                 !.lastUpdate = now]
                goal == GoalOf(r, r.categorySelect)
            IN  Commit(IF r.goalTimeRemaining <= 0
                       THEN LET r1 == BreakTimer(r)
                            IN  IF goal # NoGoal /\ ~goal.achieved
                                THEN [r1 EXCEPT
                                        !.goals[r.categorySelect].achieved = TRUE,
                                        !.notices[r.categorySelect] = @ + 1]
                                ELSE r1
                       ELSE r)
       ELSE LET r == [Cur EXCEPT !.timeLeft = Remaining(Cur),
                                 !.lastUpdate = now]
            IN  Commit(IF r.timeLeft <= 0 THEN CompleteTimerBegin(r) ELSE r)
    /\ UNCHANGED timerFrame

\* view.onLayoutReady(): the catch-up after the layout was restored
OnLayoutReadyBody(r) ==
    IF r.isRunning /\ r.interval
    THEN IF r.isStopwatch
         THEN [r EXCEPT !.stopwatchElapsed = now - r.stopwatchStartTime]
         ELSE LET elapsed == (now - r.lastUpdate) \div MsPerSecond
              IN  IF elapsed > 0
                  THEN LET r1 == [r EXCEPT
                                    !.timeLeft = Max(0, r.timeLeft - elapsed),
                                    !.lastUpdate = now]
                       IN  IF r1.timeLeft <= 0
                           THEN CompleteTimerBegin(r1) ELSE r1
                  ELSE r
    ELSE r

OnLayoutReady ==
    /\ Commit(OnLayoutReadyBody(Cur))
    /\ UNCHANGED timerFrame

\* The callback of a stopwatch interval whose handle was lost: nothing
\* clears it.
OrphanTick ==
    /\ orphans > 0
    /\ Commit([Cur EXCEPT !.stopwatchElapsed =
                   IF stopwatchStartTime = NULL THEN now
                   ELSE now - stopwatchStartTime])
    /\ UNCHANGED timerFrame

\* The End button, the end-current-session command:
\* plugin.endCurrentSession() up to its await
EndCurrentSession ==
    /\ Commit(EndRequest(Cur))
    /\ UNCHANGED timerFrame

\* The New Session button
NewSessionButton ==
    /\ Commit(NewSessionBegin(Cur))
    /\ UNCHANGED timerFrame

\* The start-new-session command
StartNewSessionCommand ==
    /\ Commit(StartTimer(StartNewSessionIn(Cur, categorySelect)))
    /\ UNCHANGED timerFrame

\* The user picks newCategory in the category select.
ChangeCategory(newCategory) ==
    /\ newCategory # categorySelect
    /\ Commit(ChangeCategoryBody([Cur EXCEPT !.categorySelect = newCategory],
                                 newCategory))
    /\ UNCHANGED timerFrame

\* The mode button
ToggleTimerMode ==
    /\ Commit(ToggleTimerModeBody(Cur))
    /\ UNCHANGED timerFrame

\* Midnight: the daily goals are reset.
ResetRecurringGoals ==
    /\ settings.enableRecurringSessions
    /\ Commit(ResetGoalsBegin(Cur))
    /\ UNCHANGED timerFrame

\* The host runs the callback of the midnight interval: every minute,
\* later when it is busy or was suspended.
MidnightCheck ==
    /\ checkDue # NULL
    /\ now >= checkDue
    /\ checkDue' = IF checkDue + CheckPeriod > now
                   THEN checkDue + CheckPeriod
                   ELSE now + CheckPeriod
    /\ Commit(MidnightCheckBegin(Cur))
    /\ UNCHANGED <<sessions, settings, clockVars, pauseHist, wordHist,
                   goalRows>>

Without(seq, i) == [j \in 1..(Len(seq) - 1) |-> IF j < i THEN seq[j] ELSE seq[j + 1]]

\* file.path.startsWith(prefix), for the paths and the prefixes of the
\* model
StartsWith(path, prefix) ==
    \/ prefix = ""
    \/ prefix = "a" /\ path = "a.md"

\* `this.settings.focusPath && !file.path.startsWith(this.settings.focusPath)'
OutOfFocus(path) ==
    settings.focusPath # "" /\ ~StartsWith(path, settings.focusPath)

\* The 'modify' handler up to vault.read(file): the file is a markdown
\* file, word counts are tracked, categories are not set by folder.
FileModifyBody(r, path) ==
    IF r.currentSession # NullSession /\ ~r.currentSession.isBreak
    THEN IF OutOfFocus(path) THEN r
         ELSE [r EXCEPT !.currentSession.modifiedFiles = @ \cup {path},
                        !.reads = Append(@, [path |-> path])]
    ELSE r

\* The callback of vault.read(file).then(...): the file has `words' words
\* and the metadata cache knows `links' links of it (NULL: none cached).
ReadDoneBody(r, i, words, links) ==
    LET path == r.reads[i].path
        r1 == [r EXCEPT !.reads = Without(@, i)]
    IN  IF r1.currentSession = NullSession
        THEN r1
        ELSE LET s == UpdateWordCount(r1.currentSession, path, words)
             IN  [r1 EXCEPT !.currentSession =
                                IF links # NULL
                                THEN UpdateLinkCount(s, path, links) ELSE s]

\* The 'file-open' handler
FileOpenBody(r, path) ==
    IF r.currentSession # NullSession /\ ~r.currentSession.isBreak
    THEN IF OutOfFocus(path) THEN r
         ELSE [r EXCEPT !.currentSession.openedFiles = @ \cup {path}]
    ELSE r

\* The 'create' handler, a markdown file
FileCreateBody(r, path) ==
    IF r.currentSession # NullSession /\ ~r.currentSession.isBreak
    THEN [r EXCEPT !.currentSession.createdFiles = @ \cup {path}]
    ELSE r

\* The vault reports that the file at path was modified.
FileModify(path) ==
    /\ Commit([FileModifyBody(Cur, path) EXCEPT !.events = @ + 1])
    /\ UNCHANGED timerFrame

\* The workspace reports that the file at path was opened.
FileOpen(path) ==
    /\ Commit([FileOpenBody(Cur, path) EXCEPT !.events = @ + 1])
    /\ UNCHANGED timerFrame

\* The vault reports that the file at path was created.
FileCreate(path) ==
    /\ Commit([FileCreateBody(Cur, path) EXCEPT !.events = @ + 1])
    /\ UNCHANGED timerFrame

\* A read of the 'modify' handler is settled.
ReadDone(i, words, links) ==
    /\ i \in 1..Len(reads)
    /\ Commit(ReadDoneBody(Cur, i, words, links))
    /\ UNCHANGED timerFrame

\* plugin.saveSessionToFile(): the folder exists, the record is pushed and
\* saveSessionsData() is awaited.
SavePush(i) ==
    /\ ~pending[i].pushed
    /\ sessions' = Append(sessions, pending[i].sessionData)
    /\ pending' = [pending EXCEPT ![i].pushed = TRUE]
    /\ UNCHANGED <<currentSession, nextId, timeLeft, isRunning, isBreak,
                   pomodoroCount, interval, endTime, lastUpdate,
                   categorySelect, settings, modeVars, ranFor, clicks,
                   clockVars, pauseHist, wordHist, calendarVars>>

\* The awaited promise is settled and the handler that awaited it goes on
\* (nobody awaits the save changeCategory() started).
SaveDone(i) ==
    /\ pending[i].pushed
    /\ LET r == [Cur EXCEPT !.pending = Without(pending, i)]
           kind == pending[i].kind
       IN  Commit(CASE kind = "completeWork" -> CompleteWorkResume(r)
                    [] kind = "completeBreak" -> CompleteBreakResume(r)
                    [] kind = "end" -> EndResume(r)
                    [] kind = "endSettings" -> EndFinalize(r)
                    [] kind = "newSession" -> NewSessionResume(r)
                    [] kind = "changeCategory" -> r
                    [] kind = "resetGoals" -> ResetGoalsResume(r)
                    [] kind = "midnight" -> MidnightDailyResume(r, FALSE)
                    [] kind = "midnightThenWeekly" ->
                           MidnightDailyResume(r, TRUE)
                    [] kind = "midnightWeekly" -> MidnightWeeklyResume(r))
    /\ UNCHANGED timerFrame

Init ==
    /\ InitCommon
    /\ goals = [c \in Categories |-> NoGoal]
    /\ \E asb \in BOOLEAN : \E asp \in BOOLEAN : settings = Settings(asb, asp)
    /\ timeLeft = settings.pomodoroTime * 60

\* A click or a tick is taken while the run is within its bounds; a
\* suspended handler always goes on.
WithinBounds ==
    /\ nextId <= MaxSessions
    /\ Len(pending) < MaxPending
    /\ Len(sessions) + Len(pending) < MaxRecords

Next ==
    \/ advances < MaxTimerAdvances /\ AdvanceClock(TimerStep)
    \/ WithinBounds /\ ToggleTimer /\ UNCHANGED clicks
    \/ WithinBounds /\ IntervalTick /\ UNCHANGED clicks
    \/ WithinBounds /\ EndCurrentSession /\ UNCHANGED clicks
    \/ \E i \in 1..Len(pending) : SavePush(i)
    \/ \E i \in 1..Len(pending) : SaveDone(i) /\ UNCHANGED clicks

Spec == Init /\ [][Next]_vars

\* ---------------------------------------------- the timer, all three modes

\* The view with the recurring sessions enabled, a work interval of two
\* minutes and a goal of two minutes for Study, none for Work; in the mode
\* it is constructed in (interval) or after one or two clicks on the mode
\* button (stopwatch, goal countdown).
InitModes ==
    /\ now = 0
    /\ currentSession = NullSession
    /\ nextId = 1
    /\ sessions = <<>>
    /\ pending = <<>>
    /\ isRunning = FALSE
    /\ isBreak = FALSE
    /\ pomodoroCount = 0
    /\ interval = FALSE
    /\ endTime = NULL
    /\ lastUpdate = NULL
    /\ categorySelect = "Study"
    /\ advances = 0
    /\ skewed = FALSE
    /\ pausedAt = NULL
    /\ durAtPause = NULL
    /\ returned = NullSession
    /\ lastObserved = [p \in Paths |-> NULL]
    /\ positiveDeltas = 0
    /\ updates = 0
    /\ stopwatchElapsed = 0
    /\ stopwatchStartTime = NULL
    /\ notices = [c \in Categories |-> 0]
    /\ accrued = <<>>
    /\ ranFor = 0
    /\ clicks = 0
    /\ checkDue = NULL
    /\ lastReset = NoReset
    /\ goalRows = NoRows
    /\ distractionInput = <<>>
    /\ notesArea = <<>>
    /\ lastSubmit = NoSubmit
    /\ reads = <<>>
    /\ events = 0
    /\ orphans = 0
    /\ \E reset \in BOOLEAN :
          settings = [Settings(FALSE, FALSE) EXCEPT
                         !.pomodoroTime = 2,
                         !.resetTimerOnNewSession = reset,
                         !.enableRecurringSessions = TRUE]
    /\ timeLeft = settings.pomodoroTime * 60
    /\ goals = [c \in Categories |->
                  IF c = "Study"
                  THEN [timeGoal |-> 2, period |-> "daily", timeSpent |-> 0,
                        achieved |-> FALSE]
                  ELSE NoGoal]
    /\ \E mode \in {"interval", "stopwatch", "goal"} :
          /\ isStopwatch = (mode = "stopwatch")
          /\ isRecurringSession = (mode = "goal")
          /\ goalTimeRemaining = IF mode = "goal"
                                 THEN GoalSeconds(goals["Study"]) ELSE 0

\* A click or a tick is taken while the run is within its bounds; a
\* suspended handler always goes on.
WithinModeBounds ==
    /\ nextId <= MaxModeSessions
    /\ Len(pending) < MaxPending
    /\ Len(sessions) + Len(pending) <= MaxModeRecords

Click ==
    /\ WithinModeBounds
    /\ clicks < MaxClicks
    /\ clicks' = clicks + 1

NextModes ==
    \/ advances < MaxModeAdvances /\ AdvanceClock(ModeStep)
    \/ Click /\ ToggleTimer
    \/ Click /\ EndCurrentSession
    \/ Click /\ NewSessionButton
    \/ Click /\ StartNewSessionCommand
    \/ Click /\ \E c \in Categories : ChangeCategory(c)
    \/ Click /\ ToggleTimerMode
    \/ Click /\ ResetRecurringGoals
    \/ WithinModeBounds /\ IntervalTick /\ UNCHANGED clicks
    \/ WithinModeBounds /\ OrphanTick /\ UNCHANGED clicks
    \/ \E i \in 1..Len(pending) : SavePush(i)
    \/ \E i \in 1..Len(pending) : SaveDone(i) /\ UNCHANGED clicks

SpecModes == InitModes /\ [][NextModes]_vars

\* ------------------------------------------------- the reset of the goals

\* Saturday, 23:59:59, the midnight check due; goal mode, a daily goal for
\* Study and a weekly goal for Work, both with a minute spent and reset
\* when their period began; the week begins on Sunday or on Monday, the
\* automatic weekly summary is on or off.
InitReset ==
    /\ now = 7 * MsPerDay - MsPerSecond
    /\ currentSession = NullSession
    /\ nextId = 1
    /\ sessions = <<>>
    /\ pending = <<>>
    /\ isRunning = FALSE
    /\ isBreak = FALSE
    /\ pomodoroCount = 0
    /\ interval = FALSE
    /\ endTime = NULL
    /\ lastUpdate = NULL
    /\ categorySelect = "Study"
    /\ advances = 0
    /\ skewed = FALSE
    /\ pausedAt = NULL
    /\ durAtPause = NULL
    /\ returned = NullSession
    /\ lastObserved = [p \in Paths |-> NULL]
    /\ positiveDeltas = 0
    /\ updates = 0
    /\ isStopwatch = FALSE
    /\ isRecurringSession = TRUE
    /\ stopwatchElapsed = 0
    /\ stopwatchStartTime = NULL
    /\ notices = [c \in Categories |-> 0]
    /\ accrued = <<>>
    /\ ranFor = 0
    /\ clicks = 0
    /\ goalRows = NoRows
    /\ distractionInput = <<>>
    /\ notesArea = <<>>
    /\ lastSubmit = NoSubmit
    /\ reads = <<>>
    /\ events = 0
    /\ orphans = 0
    /\ checkDue = now
    /\ \E weekStart \in {0, 1} : \E auto \in BOOLEAN :
          /\ settings = [Settings(FALSE, FALSE) EXCEPT
                            !.pomodoroTime = 2,
                            !.enableRecurringSessions = TRUE,
                            !.autoWeeklySummary = auto,
                            !.weeklySummaryDay = weekStart]
          /\ lastReset = [daily |-> Day(now), weekly |-> weekStart]
    /\ timeLeft = settings.pomodoroTime * 60
    /\ goals = [c \in Categories |->
                  [timeGoal |-> 2,
                   period |-> IF c = "Study" THEN "daily" ELSE "weekly",
                   timeSpent |-> 1,
                   achieved |-> FALSE]]
    /\ goalTimeRemaining = GoalSeconds(goals["Study"])

NextReset ==
    \/ advances < MaxResetAdvances /\ \E d \in ResetDeltas : AdvanceClock(d)
    \/ WithinModeBounds /\ MidnightCheck /\ UNCHANGED clicks
    \/ Click /\ ToggleTimer
    \/ Click /\ EndCurrentSession
    \/ WithinModeBounds /\ IntervalTick /\ UNCHANGED clicks
    \/ \E i \in 1..Len(pending) : SavePush(i)
    \/ \E i \in 1..Len(pending) : SaveDone(i) /\ UNCHANGED clicks

SpecReset == InitReset /\ [][NextReset]_vars

\* ------------------------------------------------- the goals display

\* The minutes of the non-break records of category c in store that
\* started on the given day (session.date === today).
RECURSIVE StoredMinutes(_, _, _)
StoredMinutes(store, c, day) ==
    IF store = <<>> THEN 0
    ELSE (IF /\ Day(Head(store).startTime) = day
             /\ ~Head(store).isBreak
             /\ Head(store).category = c
          THEN Head(store).duration ELSE 0)
         + StoredMinutes(Tail(store), c, day)

\* getCategoryTimes(today)[c], in minutes
CategoryTimes(c) ==
    StoredMinutes(sessions, c, Day(now))
    + (IF /\ currentSession # NullSession
          /\ ~currentSession.isBreak
          /\ currentSession.category = c
       THEN GetDuration(currentSession, now) ELSE 0)

\* `weeklySummaryDay === currentDay ? 7 :
\*      (7 + weeklySummaryDay - currentDay) % 7 || 7'
DaysRemainingModOnly(weeklySummaryDay, currentDay) ==
    (7 + weeklySummaryDay - currentDay) % 7
DaysRemaining(weeklySummaryDay, currentDay) ==
    IF weeklySummaryDay = currentDay THEN 7
    ELSE IF (7 + weeklySummaryDay - currentDay) % 7 # 0
         THEN (7 + weeklySummaryDay - currentDay) % 7
         ELSE 7

\* The row updateDailyTime() shows for a goal (minutes where the code has
\* hours): what is left of a daily goal today, the daily target or what is
\* left of a weekly goal.
GoalRow(c, goal, daysRemaining) ==
    IF goal.period = "daily"
    THEN LET timeRemaining == Max(0, goal.timeGoal - CategoryTimes(c))
         IN  [ text     |-> "left (daily)",
               hours    |-> timeRemaining \div 60,
               minutes  |-> timeRemaining % 60,
               complete |-> timeRemaining <= 0 ]
    ELSE LET remainingTotal == Max(0, goal.timeGoal - goal.timeSpent)
         IN  IF settings.prorateWeeklyGoals /\ daysRemaining > 0
             THEN LET dailyHours ==
                          remainingTotal \div (60 * daysRemaining)
                  IN  [ text     |-> "/day (weekly)",
                        hours    |-> dailyHours,
                        minutes  |-> MathRound(
                            remainingTotal - dailyHours * 60 * daysRemaining,
                            daysRemaining),
                        complete |-> remainingTotal <= 0 ]
             ELSE [ text     |-> "left (weekly)",
                    hours    |-> remainingTotal \div 60,
                    minutes  |-> remainingTotal % 60,
                    complete |-> remainingTotal <= 0 ]

UpdateDailyTimeStoresTotals ==
    /\ settings.enableRecurringSessions
    /\ LET daysRemaining == DaysRemaining(settings.weeklySummaryDay,
                                          GetDay(now))
       IN  goalRows' =
             [ daysRemaining |-> daysRemaining,
               rows |-> [c \in {k \in DOMAIN goals :
                                  goals[k] # NoGoal /\ goals[k].timeGoal # 0}
                           |-> GoalRow(c, goals[c], daysRemaining)] ]
    /\ goals' = [c \in DOMAIN goals |->
                   IF goals[c] # NoGoal /\ goals[c].period = "daily"
                   THEN [goals[c] EXCEPT !.timeSpent = CategoryTimes(c)]
                   ELSE goals[c]]
    /\ UNCHANGED <<sessionVars, timerVars, isStopwatch, isRecurringSession,
                   stopwatchElapsed, stopwatchStartTime, goalTimeRemaining,
                   notices, accrued, lastReset, distractionInput, notesArea,
                   lastSubmit, reads, events, orphans, ranFor, clockVars,
                   pauseHist, wordHist, checkDue>>

\* view.updateDailyTime(): the goals part of the display
UpdateDailyTime ==
    /\ settings.enableRecurringSessions
    /\ LET daysRemaining == DaysRemaining(settings.weeklySummaryDay,
                                          GetDay(now))
       IN  goalRows' =
             [ daysRemaining |-> daysRemaining,
               rows |-> [c \in {k \in DOMAIN goals :
                                  goals[k] # NoGoal /\ goals[k].timeGoal # 0}
                           |-> GoalRow(c, goals[c], daysRemaining)] ]
    /\ UNCHANGED <<sessionVars, timerVars, modeVars, ranFor, clockVars,
                   pauseHist, wordHist, checkDue>>

\* A Sunday; a daily goal of two minutes for Study, a weekly goal of two
\* or of fourteen hours for Work with nothing or an hour spent; the week
\* starts on any day, weekly goals are prorated or not.
InitProration ==
    /\ InitCommon
    /\ \E weekStart \in 0..6 : \E prorate \in BOOLEAN :
          settings = [Settings(FALSE, FALSE) EXCEPT
                         !.enableRecurringSessions = TRUE,
                         !.weeklySummaryDay = weekStart,
                         !.prorateWeeklyGoals = prorate]
    /\ timeLeft = settings.pomodoroTime * 60
    /\ \E weekly \in {120, 840} : \E spent \in {0, 60} :
          goals = [c \in Categories |->
                     IF c = "Study"
                     THEN [timeGoal |-> 2, period |-> "daily",
                           timeSpent |-> 0, achieved |-> FALSE]
                     ELSE [timeGoal |-> weekly, period |-> "weekly",
                           timeSpent |-> spent, achieved |-> FALSE]]

NextProration ==
    \/ advances < MaxDays /\ AdvanceClock(MsPerDay)
    \/ UpdateDailyTime

SpecProration == InitProration /\ [][NextProration]_vars

\* ------------------------------------------------- the text inputs

\* The entries a session may hold in this specification.
WithinInputBounds ==
    currentSession # NullSession
    => Len(currentSession.distractions) + Len(currentSession.reflections) < 2

NextInput ==
    \/ advances < MaxInputAdvances /\ AdvanceClock(TimerStep)
    \/ Click /\ ToggleTimer
    \/ Click /\ EndCurrentSession
    \/ WithinModeBounds /\ IntervalTick /\ UNCHANGED clicks
    \/ \E text \in Texts : TypeDistraction(text) /\ UNCHANGED clicks
    \/ Click /\ WithinInputBounds /\ ReportDistraction
    \/ Click /\ WithinInputBounds /\ \E text \in Texts : SubmitReflection(text)
    \/ \E i \in 1..Len(pending) : SavePush(i)
    \/ \E i \in 1..Len(pending) : SaveDone(i) /\ UNCHANGED clicks

SpecInput == Init /\ [][NextInput]_vars

\* ------------------------------------------------- the totals of today

\* The three modes with the display refreshed at any time.
NextTotals ==
    \/ advances < MaxModeAdvances /\ AdvanceClock(ModeStep)
    \/ Click /\ ToggleTimer
    \/ Click /\ EndCurrentSession
    \/ Click /\ \E c \in Categories : ChangeCategory(c)
    \/ WithinModeBounds /\ IntervalTick /\ UNCHANGED clicks
    \/ UpdateDailyTime
    \/ \E i \in 1..Len(pending) : SavePush(i)
    \/ \E i \in 1..Len(pending) : SaveDone(i) /\ UNCHANGED clicks

SpecTotals == InitModes /\ [][NextTotals]_vars

\* ------------------------------------------------- the catch-up

\* The three modes, callbacks a second or two apart.
NextCatchUp ==
    \/ advances < MaxCatchUpAdvances
       /\ \E d \in CatchUpDeltas : AdvanceClock(d)
    \/ Click /\ ToggleTimer
    \/ Click /\ EndCurrentSession
    \/ WithinModeBounds /\ IntervalTick /\ UNCHANGED clicks
    \/ WithinModeBounds /\ OnLayoutReady /\ UNCHANGED clicks
    \/ \E i \in 1..Len(pending) : SavePush(i)
    \/ \E i \in 1..Len(pending) : SaveDone(i) /\ UNCHANGED clicks

SpecCatchUp == InitModes /\ [][NextCatchUp]_vars

\* ------------------------------------------------- the file events

\* The view in interval mode, breaks started automatically or not, with a
\* focus path or without.
InitFiles ==
    /\ InitCommon
    /\ goals = [c \in Categories |-> NoGoal]
    /\ \E asb \in BOOLEAN : \E focus \in FocusPaths :
          settings = [Settings(asb, FALSE) EXCEPT !.focusPath = focus]
    /\ timeLeft = settings.pomodoroTime * 60

NextFiles ==
    \/ advances < MaxFileAdvances /\ AdvanceClock(TimerStep)
    \/ Click /\ ToggleTimer
    \/ Click /\ EndCurrentSession
    \/ WithinModeBounds /\ IntervalTick /\ UNCHANGED clicks
    \/ events < MaxEvents /\ UNCHANGED clicks
       /\ \E path \in Paths :
             FileModify(path) \/ FileOpen(path) \/ FileCreate(path)
    \/ \E i \in 1..Len(reads) : \E words \in ReadWords :
          \E links \in ReadLinks \cup {NULL} :
             ReadDone(i, words, links) /\ UNCHANGED clicks
    \/ \E i \in 1..Len(pending) : SavePush(i)
    \/ \E i \in 1..Len(pending) : SaveDone(i) /\ UNCHANGED clicks

SpecFiles == InitFiles /\ [][NextFiles]_vars

\* ------------------------------------------------- claims: getDuration()

\* The integer nearest to num / den (den > 0), the upper one on a tie.
NearestInt(num, den) ==
    CHOOSE k \in ((num \div den) - 1)..((num \div den) + 1) :
        /\ 2 * den * k - den <= 2 * num
        /\ 2 * num < 2 * den * k + den

\* The duration as the contract words it, for session s read at time t.
ContractDuration(s, t) ==
    LET end       == IF s.endTime # NULL THEN s.endTime ELSE t
        openPause == IF s.breakStartTime # NULL THEN t - s.breakStartTime ELSE 0
    IN  Max(0, NearestInt(end - s.startTime, MsPerMinute)
               - NearestInt(openPause, MsPerMinute)
               - NearestInt(s.totalBreakDuration, MsPerMinute))

Live == currentSession # NullSession
Finalized == Live /\ currentSession.endTime # NULL
Paused == Live /\ currentSession.breakStartTime # NULL
EndBeforeStart == Finalized /\ currentSession.endTime < currentSession.startTime

\* The session of scenario (a): started at 0, paused at 5 min, resumed at
\* 8 min (3 min of pause in total), ended at 30 min.
ScenarioA ==
    /\ Finalized
    /\ currentSession.startTime = 0
    /\ pausedAt = 5 * MsPerMinute
    /\ currentSession.breakStartTime = NULL
    /\ currentSession.totalBreakDuration = 3 * MsPerMinute
    /\ currentSession.endTime = 30 * MsPerMinute

\* C1 (as claimed): getDuration() is max(0, round((end - start)/60000)
\* - round(openPause/60000) - round(totalPause/60000)); it is 0 whenever
\* end < start; the session of scenario (a) reports 27.
C1_DurationFormulaOriginal ==
    Live =>
        /\ GetDuration(currentSession, now) = ContractDuration(currentSession, now)
        /\ EndBeforeStart => GetDuration(currentSession, now) = 0
        /\ ScenarioA => GetDuration(currentSession, now) = 27

\* C1 (amended): the same formula and scenario; the result is never
\* negative, and it is 0 when end < start provided neither pause amount
\* (the open pause, the accumulated total) is negative.
C1_DurationFormula ==
    Live =>
        /\ GetDuration(currentSession, now) = ContractDuration(currentSession, now)
        /\ GetDuration(currentSession, now) >= 0
        /\ ( /\ EndBeforeStart
             /\ currentSession.totalBreakDuration >= 0
             /\ Paused => now >= currentSession.breakStartTime )
           => GetDuration(currentSession, now) = 0
        /\ ScenarioA => GetDuration(currentSession, now) = 27

\* C1 witnesses: scenario (a) has run and reports 27 ...
C1_ScenarioReached == ScenarioA /\ GetDuration(currentSession, now) = 27

\* C2 (as claimed): the resume() that closes a pause brings getDuration()
\* back to the value it had just before the pause() (no end(), no clock
\* jump in between).
C2_PauseNeutral ==
    [][ ( /\ Paused
          /\ ~Finalized
          /\ ~skewed
          /\ currentSession' = SessResume(currentSession, now)
          /\ now' = now )
        => GetDuration(currentSession', now') = durAtPause ]_vars

\* C3 (as claimed): with no pause() or resume() between two readings of an
\* active session, the later getDuration() is not below the earlier one.
C3_DurationMonotonic ==
    [][ ( /\ Live
          /\ ~Finalized
          /\ ~skewed
          /\ currentSession' = currentSession
          /\ now' > now )
        => GetDuration(currentSession, now') >= GetDuration(currentSession, now) ]_vars

\* C4 (as claimed): while a pause is open getDuration() stays at one value,
\* however long the pause gets.
C4_ConstantWhilePaused ==
    [][ ( /\ Paused
          /\ ~Finalized
          /\ ~skewed
          /\ currentSession' = currentSession
          /\ now' > now )
        => GetDuration(currentSession, now') = GetDuration(currentSession, now) ]_vars

\* C6 (as claimed): once end() has been called, getDuration() returns the
\* duration of the record end() returned, at every later time.
C6_DurationFrozenAfterEnd ==
    (Finalized /\ ~skewed /\ returned # NullSession)
        => GetDuration(currentSession, now) = returned.duration

\* ---------------------------------------------- claims: updateWordCount()

\* C7 (as claimed): every observation after the first adds
\* max(0, count - baseline) and makes the count the new baseline, so that
\* wordCount is the sum of the positive deltas between consecutive
\* observations of each path (100, 150, 120, 140 gives 70).
C7_SumOfPositiveDeltas ==
    Live =>
        /\ currentSession.wordCount = positiveDeltas
        /\ \A p \in Paths : currentSession.initialWordCounts[p] = lastObserved[p]

\* C8: wordCount is never negative and never decreases, whatever is
\* observed, and the first observation of a path adds nothing.
C8_WordCountGrowsOnly ==
    [][ /\ Live' => currentSession'.wordCount >= 0
        /\ (Live /\ Live' /\ currentSession'.id = currentSession.id)
           => /\ currentSession'.wordCount >= currentSession.wordCount
              /\ \A p \in Paths :
                    (lastObserved[p] = NULL /\ lastObserved'[p] # NULL)
                    => currentSession'.wordCount = currentSession.wordCount ]_vars

\* C8 witness: a file grew and then shrank below its baseline, and what
\* was counted is still there.
C8_ShrunkAfterGrowth ==
    /\ Live
    /\ currentSession.wordCount > 0
    /\ \E p \in Paths :
          /\ lastObserved[p] # NULL
          /\ lastObserved[p] < currentSession.initialWordCounts[p]

\* ------------------------------------------------------ claims: the timer

\* end() calls made on session id so far: the records they returned are in
\* the store or wait to be pushed.
EndCalls(id, store, susp) ==
    Cardinality({i \in 1..Len(store) : store[i].id = id})
    + Cardinality({i \in 1..Len(susp) :
                     ~susp[i].pushed /\ susp[i].sessionData.id = id})

\* C5 (as claimed): once a session is finalized no further end() takes
\* effect on it: its endTime stays and no second record is produced.
C5_SecondEndRejected ==
    [][ Finalized =>
          /\ (Live' /\ currentSession'.id = currentSession.id)
             => currentSession'.endTime = currentSession.endTime
          /\ EndCalls(currentSession.id, sessions', pending')
             = EndCalls(currentSession.id, sessions, pending) ]_vars

\* The tick that brings a work countdown to zero with an active session.
WorkCountdownEnds ==
    /\ IntervalTick
    /\ ~isBreak
    /\ Live
    /\ ~Finalized
    /\ Remaining(Cur) <= 0

\* The completeTimer() that such a tick started goes on after its save.
WorkCompletionResumes(i) ==
    /\ i \in 1..Len(pending)
    /\ pending[i].kind = "completeWork"
    /\ SaveDone(i)

\* C9 (as claimed): when a work countdown reaches zero with an active
\* session, the session's pomodorosCompleted goes up by one and the session
\* is finalized; when completeTimer() has finished, its record is in the
\* store, a new break session is current, timeLeft is the short or the long
\* break and the countdown runs exactly when autoStartBreaks is set.
C9_WorkRollover ==
    [][ /\ WorkCountdownEnds =>
            /\ currentSession'.id = currentSession.id
            /\ currentSession'.pomodorosCompleted
               = currentSession.pomodorosCompleted + 1
            /\ currentSession'.endTime = now
            /\ pending'[Len(pending')].sessionData.id = currentSession.id
        /\ \A i \in 1..Len(pending) : WorkCompletionResumes(i) =>
            /\ \E j \in 1..Len(sessions) :
                  sessions[j] = pending[i].sessionData
            /\ Live'
            /\ currentSession'.id = nextId
            /\ currentSession'.isBreak
            /\ currentSession'.endTime = NULL
            /\ isBreak'
            /\ timeLeft' \in {settings.shortBreakTime * 60,
                              settings.longBreakTime * 60}
            /\ isRunning' = settings.autoStartBreaks ]_vars

\* C10 (as claimed): the break after the k-th work-interval completion
\* since the reset is the long one exactly when k is a multiple of
\* longBreakInterval.
C10_LongBreakEveryNth ==
    [][ \A i \in 1..Len(pending) : WorkCompletionResumes(i) =>
            LET k == pending[i].count
            IN  timeLeft' = 60 * (IF k % settings.longBreakInterval = 0
                                  THEN settings.longBreakTime
                                  ELSE settings.shortBreakTime) ]_vars

\* The tick that brings a break countdown to zero with an active session.
BreakCountdownEnds ==
    /\ IntervalTick
    /\ ~isStopwatch
    /\ ~isRecurringSession
    /\ isBreak
    /\ Live
    /\ ~Finalized
    /\ Remaining(Cur) <= 0

\* The completeTimer() that such a tick started goes on after its save.
BreakCompletionResumes(i) ==
    /\ i \in 1..Len(pending)
    /\ pending[i].kind = "completeBreak"
    /\ SaveDone(i)

\* The timer is idle after a break was completed without auto-start.
IdleAfterBreak ==
    /\ ~isRunning
    /\ ~isBreak
    /\ pending = <<>>
    /\ Finalized
    /\ currentSession.isBreak

\* C11 (as claimed): when a break countdown reaches zero the break session is
\* finalized, the countdown is restored to the work duration and the engine
\* leaves break state; when completeTimer() has finished the record is in
\* the store once and, with autoStartPomodoros, a new non-break session is
\* current and running, otherwise the timer is idle; the next Start from
\* that idle state begins a fresh work session.
C11_BreakRollover ==
    [][ /\ BreakCountdownEnds =>
            /\ currentSession'.id = currentSession.id
            /\ currentSession'.endTime = now
            /\ pending'[Len(pending')].sessionData.id = currentSession.id
            /\ timeLeft' = settings.pomodoroTime * 60
            /\ ~isBreak'
        /\ \A i \in 1..Len(pending) : BreakCompletionResumes(i) =>
            /\ Cardinality({j \in 1..Len(sessions) :
                    sessions[j].id = pending[i].sessionData.id}) = 1
            /\ IF settings.autoStartPomodoros
               THEN /\ Live'
                    /\ ~currentSession'.isBreak
                    /\ currentSession'.endTime = NULL
                    /\ isRunning'
               ELSE ~isRunning'
        /\ (IdleAfterBreak /\ ToggleTimer) =>
            /\ Live'
            /\ currentSession'.id # currentSession.id
            /\ ~currentSession'.isBreak
            /\ currentSession'.endTime = NULL ]_vars

\* -------------------------------------- claims: the timer, all three modes

\* What the timer shows: the elapsed time of the stopwatch, the remaining
\* seconds of the goal countdown or of the interval.
Displayed(sw, rec, elapsed, goalLeft, left) ==
    IF sw THEN elapsed ELSE IF rec THEN goalLeft ELSE left

\* The user picks category c and changeCategory(c) acts: a session is
\* active under another category.
CategoryChanges(c) ==
    /\ ChangeCategory(c)
    /\ Live
    /\ currentSession.category # c

\* What a category change does to the sessions: the old one is finalized
\* and its record handed to the save under its old category, a new one is
\* current under category c; the timer runs exactly if it ran before and
\* stays in its mode.
CategoryChangeSwaps(c) ==
    /\ pending' # <<>>
    /\ pending'[Len(pending')].sessionData.id = currentSession.id
    /\ pending'[Len(pending')].sessionData.category = currentSession.category
    /\ Live'
    /\ currentSession'.id # currentSession.id
    /\ currentSession'.category = c
    /\ currentSession'.endTime = NULL
    /\ isRunning' = isRunning
    /\ isStopwatch' = isStopwatch
    /\ isRecurringSession' = isRecurringSession

\* C12 (as claimed): a category change with a session active, in every
\* timer mode, finalizes and persists the session under its old category,
\* starts a new one under the new category and leaves the remaining
\* countdown / elapsed value and the running state as they were.
C12_CategoryChangeKeepsTimerAllModes ==
    [][ \A c \in Categories : CategoryChanges(c) =>
            /\ CategoryChangeSwaps(c)
            /\ Displayed(isStopwatch', isRecurringSession', stopwatchElapsed',
                         goalTimeRemaining', timeLeft')
               = Displayed(isStopwatch, isRecurringSession, stopwatchElapsed,
                           goalTimeRemaining, timeLeft) ]_vars

\* C12 (amended): the same, with the value kept in interval and in
\* stopwatch mode; in goal-countdown mode the countdown is set to the new
\* category's full goal (0 when it has none).
C12_CategoryChangeKeepsTimer ==
    [][ \A c \in Categories : CategoryChanges(c) =>
            /\ CategoryChangeSwaps(c)
            /\ ~isRecurringSession =>
                  /\ timeLeft' = timeLeft
                  /\ stopwatchElapsed' = stopwatchElapsed
            /\ isRecurringSession =>
                  goalTimeRemaining' =
                      IF goals[c] # NoGoal THEN GoalSeconds(goals[c]) ELSE 0
        ]_vars

\* C12 witness: the category was changed from Study to Work half way
\* through a running work interval, and the interval still runs with half
\* of it left.
C12_ChangedHalfWay ==
    /\ Live
    /\ currentSession.category = "Work"
    /\ ~Finalized
    /\ ~isStopwatch
    /\ ~isRecurringSession
    /\ isRunning
    /\ timeLeft = 60
    /\ currentSession.startTime = ModeStep
    /\ now = ModeStep
    /\ \E i \in 1..Len(pending) :
          /\ pending[i].kind = "changeCategory"
          /\ pending[i].sessionData.category = "Study"
          /\ pending[i].sessionData.duration = 1

\* The records of session id that were handed to the save: pushed to the
\* store or about to be.
RecordsOf(id, store, susp) ==
    Cardinality({i \in 1..Len(store) : store[i].id = id})
    + Cardinality({i \in 1..Len(susp) :
                     susp[i].kind \notin {"endSettings", "resetGoals"}
                     /\ ~susp[i].pushed /\ susp[i].sessionData.id = id})

\* C13 (as claimed): whenever the current session is replaced (New Session
\* button, start-new-session command, any other path), the session that was
\* current has been finalized: the record end() returned is in the store or
\* on its way there.
C13_ReplacedSessionIsSaved ==
    [][ ( /\ Live
          /\ currentSession' # NullSession
          /\ currentSession'.id # currentSession.id )
        => RecordsOf(currentSession.id, sessions', pending') >= 1 ]_vars

\* A step of the New Session handler: the click, and the part after the
\* await when a session was active.
NewSessionStep ==
    \/ NewSessionButton
    \/ \E i \in 1..Len(pending) :
          pending[i].kind = "newSession" /\ SaveDone(i)

\* The step in which the New Session handler sets the timer.
NewSessionCompletes ==
    \/ NewSessionButton /\ ~Live
    \/ \E i \in 1..Len(pending) :
          pending[i].kind = "newSession" /\ SaveDone(i)

\* C14 (as claimed): after New Session with resetTimerOnNewSession the
\* countdown is the configured work duration (the stopwatch shows zero),
\* whether the timer was idle or running; without it the timer value and
\* the running state are what they were.
C14_NewSessionTimer ==
    [][ /\ (NewSessionCompletes /\ settings.resetTimerOnNewSession) =>
            /\ (~isStopwatch /\ ~isRecurringSession)
               => timeLeft' = settings.pomodoroTime * 60
            /\ isStopwatch => stopwatchElapsed' = 0
        /\ (NewSessionStep /\ ~settings.resetTimerOnNewSession) =>
            /\ timeLeft' = timeLeft
            /\ stopwatchElapsed' = stopwatchElapsed
            /\ goalTimeRemaining' = goalTimeRemaining
            /\ isRunning' = isRunning ]_vars

\* The Start button resumes a countdown (interval or goal mode) that was
\* paused before it reached zero.
ResumesCountdown ==
    /\ ~isRunning /\ ~isStopwatch
    /\ Paused /\ ~Finalized
    /\ Displayed(isStopwatch, isRecurringSession,
                 stopwatchElapsed, goalTimeRemaining, timeLeft) > 0
    /\ ToggleTimer

\* C15 (as claimed): in interval mode and in goal mode, resuming a countdown
\* paused at remaining time r continues from r: the target end time is
\* now + r and the remaining time shown right after the resume is r.
C15_ResumeContinues ==
    [][ ResumesCountdown =>
          LET r == Displayed(isStopwatch, isRecurringSession,
                             stopwatchElapsed, goalTimeRemaining, timeLeft)
          IN  /\ Displayed(isStopwatch', isRecurringSession',
                           stopwatchElapsed', goalTimeRemaining',
                           timeLeft') = r
              /\ endTime' = now + r * MsPerSecond ]_vars

\* The stopwatch's interval callback runs.
StopwatchTick == isStopwatch /\ IntervalTick

\* C16 (as claimed): the elapsed value the stopwatch shows is the total time
\* the timer has been running since the last reset (time spent paused is
\* not counted, it starts from zero after End and on entering the mode), and
\* the stopwatch never completes by itself.
C16_StopwatchElapsed ==
    [][ StopwatchTick =>
          /\ stopwatchElapsed' = ranFor
          /\ isRunning' = isRunning
          /\ currentSession' = currentSession
          /\ pending' = pending ]_vars

\* The records of finalized sessions: stored, or held by a suspended save.
FinalizedRecords ==
    {sessions[i] : i \in 1..Len(sessions)}
    \cup {pending[i].sessionData :
            i \in {j \in 1..Len(pending) :
                     pending[j].sessionData # NullSession}}

\* C17 (as claimed): every non-break session of a category with a goal that
\* was finalized (End, New Session, category change, interval completion,
\* any mode) had its duration added to the timeSpent of the category.
C17_FinalizedIsAccrued ==
    \A rec \in FinalizedRecords :
        (~rec.isBreak /\ GoalOf(Cur, rec.category) # NoGoal)
        => (rec.id \in DOMAIN accrued /\ accrued[rec.id] >= 1)

\* The current session is accrued although it was accrued before.
AccruedAgain ==
    /\ Live
    /\ currentSession.id \in DOMAIN accrued
    /\ accrued'[currentSession.id] > accrued[currentSession.id]

\* C18 (as claimed): the duration of a session is added to the timeSpent of
\* its category at most once, whatever the interleaving of End requests,
\* category changes, ticks and pending saves: an accrual of a session that
\* was accrued already adds nothing.
C18_AccruedOnce ==
    [][ AccruedAgain =>
          goals'[currentSession.category].timeSpent
            = goals[currentSession.category].timeSpent ]_vars

\* The categories that have a goal.
GoalCategories == {c \in DOMAIN goals : goals[c] # NoGoal}

\* The step accrues the current session to the goal of category c.
AccrualOf(c) ==
    /\ Live
    /\ currentSession.category = c
    /\ accrued' # accrued

\* C19: an accrual that brings timeSpent to timeGoal or beyond for a
\* category not yet achieved sets achieved and emits exactly one
\* notification; once achieved, no accrual and no countdown completion
\* emits another one in the period.
C19_AchievedNotifiedOnce ==
    [][ \A c \in GoalCategories :
          /\ ( /\ AccrualOf(c)
               /\ ~goals[c].achieved
               /\ goals'[c].timeSpent >= goals'[c].timeGoal )
             => /\ goals'[c].achieved
                /\ notices'[c] = notices[c] + 1
          /\ goals[c].achieved => notices'[c] <= notices[c]
          /\ notices'[c] <= 1 ]_vars

\* C19, its case: the accrual of session 1 at End brought Study to its
\* goal (the countdown has not ticked since the start), achieved is set and
\* one notification was emitted.
C19_AchievedByAccrual ==
    /\ isRecurringSession /\ isRunning
    /\ lastUpdate = 0 /\ now = 2 * ModeStep
    /\ accrued = <<1>>
    /\ goals["Study"].timeSpent >= goals["Study"].timeGoal
    /\ goals["Study"].achieved
    /\ notices["Study"] = 1

\* C20: until the goals are reset, achieved stays true once it is true and
\* timeSpent never decreases, whatever accruals, ticks, category changes
\* and mode switches happen.
C20_GoalProgressMonotonic ==
    [][ ~ResetRecurringGoals =>
          \A c \in GoalCategories :
              /\ goals'[c].timeSpent >= goals[c].timeSpent
              /\ goals[c].achieved => goals'[c].achieved ]_vars

\* C20, its case: Study reached its goal in goal mode and the mode was
\* switched afterwards; the progress is still there.
C20_AchievedThenSwitched ==
    /\ ~isRecurringSession
    /\ goals["Study"].achieved
    /\ goals["Study"].timeSpent >= goals["Study"].timeGoal

\* C21 (as claimed): a goal is marked achieved only with timeSpent at
\* timeGoal or beyond: on every step that sets achieved, the accumulated
\* timeSpent of the goal is at least its timeGoal.
C21_AchievedOnlyWhenReached ==
    [][ \A c \in GoalCategories :
          (~goals[c].achieved /\ goals'[c].achieved)
          => goals'[c].timeSpent >= goals'[c].timeGoal ]_vars

\* ------------------------------------------- claims: the reset of the goals

\* C22 (as claimed): the goals of a period are reset at most once per
\* period boundary: once they were reset today, no later run of the check
\* in the same window erases the time accrued since.
C22_ResetOncePerPeriod ==
    [][ \A c \in GoalCategories :
          lastReset[goals[c].period] = Day(now)
          => goals'[c].timeSpent >= goals[c].timeSpent ]_vars

\* The midnight callback goes on after the await of its daily reset.
DailyResetDone ==
    \E i \in 1..Len(pending) :
        /\ pending[i].kind \in {"midnight", "midnightThenWeekly"}
        /\ SaveDone(i)

\* C23 (as claimed): with the recurring goals enabled, the check that runs
\* in a new day resets every daily goal for that day, on the day the week
\* starts it resets every weekly goal as well, and a reset of one period
\* leaves the goals of the other period as they are.
C23_PeriodReset ==
    [][ /\ MidnightCheck => lastReset'["daily"] = Day(now)
        /\ ( /\ DailyResetDone
             /\ InResetWindow(now)
             /\ GetDay(now) = settings.weeklySummaryDay )
           => lastReset'["weekly"] = Day(now)
        /\ \A p \in {"daily", "weekly"} :
              lastReset'[p] # lastReset[p]
              => \A c \in GoalCategories :
                    goals[c].period # p => goals'[c] = goals[c] ]_vars

\* C24: for every week-boundary day w and weekday d, daysRemainingInPeriod
\* is between 1 and 7, it is 7 when d = w and 1 on the day before w; it is
\* never 0, so the prorated daily target never divides by zero.
C24_DaysRemainingBounds ==
    [][ UpdateDailyTime =>
          LET w == settings.weeklySummaryDay
              d == GetDay(now)
              n == goalRows'.daysRemaining
          IN  /\ n \in 1..7
              /\ d = w => n = 7
              /\ (d + 1) % 7 = w => n = 1 ]_vars

\* C24, its case: on a Saturday with the week starting on Sunday one day
\* remains, and the prorated daily target of Work is all that is left of
\* its fourteen hours.
C24_DayBeforeBoundary ==
    /\ goalRows # NoRows
    /\ GetDay(now) = 6
    /\ settings.weeklySummaryDay = 0
    /\ goalRows.daysRemaining = 1
    /\ goalRows.rows["Work"].text = "/day (weekly)"
    /\ goalRows.rows["Work"].hours = 14

\* ------------------------------------- claims: mode switch and countdown

\* C25 (as claimed): a mode switch while a session is active finalizes
\* that session and hands its record to the store: it is not the current
\* session any more afterwards.
C25_ModeSwitchFinalizes ==
    [][ (ToggleTimerMode /\ Live /\ ~Finalized) =>
          /\ currentSession' = NullSession
             \/ currentSession'.id # currentSession.id
          /\ RecordsOf(currentSession.id, sessions', pending') >= 1 ]_vars

\* The tick of the goal countdown that finds no time left.
GoalCountdownEnds ==
    /\ isRecurringSession /\ ~isStopwatch
    /\ GoalRemaining(Cur) <= 0
    /\ IntervalTick

\* C26: when the goal countdown reaches zero the timer stops (not
\* running, no tick scheduled), the goal of the selected category is
\* achieved afterwards, and no session is started: the current session is
\* the one it was and nothing is handed to the store.
C26_GoalCountdownStops ==
    [][ GoalCountdownEnds =>
          /\ ~isRunning' /\ ~interval'
          /\ goalTimeRemaining' = 0
          /\ GoalOf(Cur, categorySelect) # NoGoal
             => goals'[categorySelect].achieved
          /\ Live' = Live
          /\ Live => currentSession'.id = currentSession.id
          /\ nextId' = nextId
          /\ pending' = pending
          /\ sessions' = sessions ]_vars

\* C26, its case: the countdown of Study ran out with session 1 active;
\* the timer is stopped, Study is achieved (by the tick: nothing was
\* accrued) and session 1 is still the current session.
C26_CountdownRanOut ==
    /\ isRecurringSession
    /\ goalTimeRemaining = 0
    /\ ~isRunning /\ ~interval
    /\ goals["Study"].achieved
    /\ accrued = <<>>
    /\ Live /\ currentSession.id = 1 /\ ~Finalized
    /\ nextId = 2

\* ----------------------------------------------- claims: the session store

\* C27 (as claimed): every finalized session is appended to the store
\* once: no two records of the store carry the same session id, and a
\* record of the store never changes.
C27_StoredOnce ==
    [][ /\ \A i, j \in 1..Len(sessions') :
              sessions'[i].id = sessions'[j].id => i = j
        /\ Len(sessions') >= Len(sessions)
        /\ \A i \in 1..Len(sessions) : sessions'[i] = sessions[i] ]_vars

\* C28: an End request while no session is active is a no-op: nothing is
\* appended or handed to the store, no goal changes and the timer is as
\* it was.
C28_EndWithoutSession ==
    [][ (~Live /\ EndCurrentSession) =>
          UNCHANGED <<sessionVars, pending, timeLeft, isRunning, isBreak,
                      pomodoroCount, interval, endTime, lastUpdate,
                      categorySelect, modeVars, ranFor>> ]_vars

\* C28, its case: End was clicked with no session active and with Work
\* selected; there is still no session, nothing was stored and Work is
\* still selected.
C28_EndedNothing ==
    /\ clicks = 2
    /\ ~Live
    /\ nextId = 1
    /\ categorySelect = "Work"
    /\ sessions = <<>> /\ pending = <<>>
    /\ isStopwatch

\* ------------------------------------------- claims: pause and resume

\* C29: pause and resume are idempotent: break() on a paused session
\* changes nothing; resume() on a paused session adds now - breakStartTime
\* to totalBreakDuration and clears breakStartTime; resume() on a session
\* that is not paused changes nothing.
C29_PauseResumeIdempotent ==
    [][ /\ (CallBreak /\ Paused) => currentSession' = currentSession
        /\ (CallResume /\ Paused) =>
              /\ currentSession'.totalBreakDuration
                   = currentSession.totalBreakDuration
                     + (now - currentSession.breakStartTime)
              /\ currentSession'.breakStartTime = NULL
        /\ (CallResume /\ Live /\ ~Paused) =>
              currentSession' = currentSession ]_vars

\* C29, its case: the session was paused at 0:20 and resume() closed the
\* pause when it was twenty seconds long.
C29_PausedOnceResumed ==
    /\ Live /\ ~Paused
    /\ pausedAt = 20000
    /\ now >= 40000
    /\ currentSession.totalBreakDuration = 20000

\* C30 (as claimed): the record of a session finalized because its
\* interval countdown reached zero has completed = true, the record of a
\* session ended by hand (End, New Session, category change) has
\* completed = false.
C30_CompletedFlag ==
    \A i \in 1..Len(pending) :
        /\ pending[i].kind \in {"completeWork", "completeBreak"}
           => pending[i].sessionData.completed
        /\ pending[i].kind \in {"end", "newSession", "changeCategory"}
           => ~pending[i].sessionData.completed

\* ------------------------------------------------- claims: the text inputs

\* What a session holds and what the view shows besides the inputs.
sessionAndTimer ==
    <<currentSession, nextId, sessions, pending, timeLeft, isRunning, isBreak,
      pomodoroCount, interval, endTime, lastUpdate, categorySelect,
      isStopwatch, isRecurringSession, stopwatchElapsed, stopwatchStartTime,
      goalTimeRemaining, goals, notesArea, distractionInput>>

\* C31: a distraction or a reflection whose text is empty or white space
\* only is discarded: no entry is appended to the session and nothing else
\* of the session, the store or the view changes.
C31_BlankTextDiscarded ==
    [][ /\ (ReportDistraction /\ Trim(distractionInput) = <<>>)
           => UNCHANGED sessionAndTimer
        /\ \A text \in Texts :
              (SubmitReflection(text) /\ Trim(text) = <<>>)
              => UNCHANGED sessionAndTimer ]_vars

\* C31, its case: two blanks were reported as a distraction to a live
\* session, which holds no entry; the blanks are still in the input.
C31_BlanksReported ==
    /\ lastSubmit # NoSubmit
    /\ lastSubmit.kind = "distraction"
    /\ lastSubmit.text = <<Blank, Blank>>
    /\ lastSubmit.session # NullSession
    /\ lastSubmit.session.endTime = NULL
    /\ Live
    /\ currentSession = lastSubmit.session
    /\ currentSession.distractions = <<>>
    /\ distractionInput = <<Blank, Blank>>

\* ------------------------------------------------- claims: the file events

\* A file event is delivered, or the read that followed one is settled.
ActivityEvent ==
    \/ \E path \in Paths :
          FileModify(path) \/ FileOpen(path) \/ FileCreate(path)
    \/ \E i \in 1..Len(reads) : \E words \in ReadWords :
          \E links \in ReadLinks \cup {NULL} : ReadDone(i, words, links)

\* C32 (as claimed): an activity event delivered after a session's end()
\* is never applied to that finalized session, also while the save of its
\* record is still in progress.
C32_NoEventAfterEnd ==
    [][ (Finalized /\ ActivityEvent) => currentSession' = currentSession ]_vars

\* The current session is one that may receive updates: live, not
\* finalized, not a break.
Tracking == Live /\ ~Finalized /\ ~currentSession.isBreak

\* C35 (as claimed): a file event, or the word/link update that follows a
\* modification, changes the tracking state of the session only if the
\* session is a live non-break session when the update is applied and the
\* path passes the focus-path filter.
C35_TrackedOnlyWhenLiveInFocus ==
    [][ /\ \A path \in Paths :
              ( /\ FileModify(path) \/ FileOpen(path) \/ FileCreate(path)
                /\ currentSession' # currentSession )
              => (Tracking /\ ~OutOfFocus(path))
        /\ \A i \in 1..Len(reads) : \A words \in ReadWords :
              \A links \in ReadLinks \cup {NULL} :
                 ( /\ ReadDone(i, words, links)
                   /\ currentSession' # currentSession )
                 => (Tracking /\ ~OutOfFocus(reads[i].path)) ]_vars

\* --------------------------------------------- claims: ticks and finalize

\* The step calls end() on the current session and suspends at the save
\* of its record, the session still being the current one (End, New
\* Session, a countdown completion; a category change replaces the
\* session in the same step).
EndCalled ==
    /\ Live /\ Live'
    /\ currentSession'.id = currentSession.id
    /\ currentSession'.endTime # NULL
    /\ Len(pending') > Len(pending)
    /\ pending'[Len(pending')].sessionData # NullSession

\* C33 (as claimed): whenever end() is called on the current session, no
\* tick is scheduled at that moment: the interval was cleared before, and
\* none is scheduled while the session waits to be replaced or cleared.
C33_TicksCancelledBeforeEnd ==
    [][ EndCalled => ~interval' ]_vars

\* C34 (as claimed): end() is the last operation applied to a session:
\* once the current session is finalized, nothing changes it any more (no
\* pause, resume, counter increment, update or second end()).
C34_EndIsLast ==
    [][ (Finalized /\ Live' /\ currentSession'.id = currentSession.id)
        => currentSession' = currentSession ]_vars

\* ------------------------------------------------- claims: the catch-up

\* The step updates the remaining time of a running countdown: a tick, or
\* a catch-up that finds a second or more elapsed.
CountdownUpdated ==
    /\ isRunning /\ interval /\ ~isStopwatch
    /\ \/ IntervalTick
       \/ OnLayoutReady /\ (now - lastUpdate) \div MsPerSecond > 0

\* C36 (as claimed): after every update of the remaining time of a
\* countdown that goes on, the remaining time is max(0, endTime - now) in
\* whole seconds (rounded up or down), whatever the time since the
\* previous update and whatever the previous value; it is never negative.
C36_RemainingFromEndTime ==
    [][ CountdownUpdated =>
          LET shown == IF isRecurringSession THEN goalTimeRemaining'
                       ELSE timeLeft'
          IN  /\ shown >= 0
              /\ isRunning' => shown \in {GoalRemaining(Cur), Remaining(Cur)}
        ]_vars

\* ------------------------------------------- claims: the totals of today

\* C37: computing today's totals per category (the stored records of
\* today plus the elapsed time of the live non-break session) changes no
\* field of the live session, no stored record, no goal and no timer
\* field, in any state and however often it is done.
C37_TotalsReadOnly ==
    [][ UpdateDailyTime =>
          UNCHANGED <<currentSession, nextId, sessions, pending, goals,
                      notices, timeLeft, isRunning, isBreak, pomodoroCount,
                      interval, endTime, lastUpdate, categorySelect,
                      isStopwatch, isRecurringSession, stopwatchElapsed,
                      stopwatchStartTime, goalTimeRemaining>> ]_vars

\* C37, its case: the totals were computed a minute into a live Study
\* session that follows a stored Study record of a minute: the display
\* has the goal of two minutes as complete, the goal itself is as it was
\* (nothing spent, not achieved) and the session goes on.
C37_TotalsWithLiveSession ==
    /\ goalRows # NoRows
    /\ Live /\ ~Finalized /\ ~currentSession.isBreak
    /\ currentSession.category = "Study"
    /\ GetDuration(currentSession, now) = 1
    /\ StoredMinutes(sessions, "Study", Day(now)) = 1
    /\ goalRows.rows["Study"].complete
    /\ goals["Study"].timeSpent = 0
    /\ ~goals["Study"].achieved
    /\ isRunning

\* --------------------------------------------- claims: timer and session

\* C38 (as claimed): whenever a live, un-finalized session is current and
\* the timer is not running, the session is paused (its pause start is
\* set), so that its duration accrues only while the timer runs.
C38_IdleSessionIsPaused ==
    (Live /\ ~Finalized /\ ~isRunning) => Paused

\* The tick intervals scheduled: the one view.interval holds and those it
\* has lost.
Scheduled == (IF interval THEN 1 ELSE 0) + orphans

\* C39 (as claimed): at most one tick interval is scheduled at any time,
\* and isRunning is true exactly when one is scheduled (so that no tick
\* fires after breakTimer() until the next start), in all three modes.
C39_OneIntervalWhileRunning ==
    /\ Scheduled <= 1
    /\ isRunning <=> (Scheduled = 1)

\* C40 (as claimed): whenever a live session is current in interval mode,
\* the break flag of the view equals isBreak of the session, so that a
\* countdown completing on a non-break session is handled as the
\* completion of a work interval.
C40_BreakFlagMatchesSession ==
    (Live /\ ~Finalized /\ ~isStopwatch /\ ~isRecurringSession)
    => (isBreak = currentSession.isBreak)

=============================================================================
